---- MODULE Spec2Model ----
(***************************************************************************)
(* The request/response transport core of neo_tariff (src/neo_tariff/      *)
(* _http.py, _raw.py, _types.py, _config.py, client.py, async_client.py):  *)
(* the retry loop of                                                       *)
(* HttpTransport._send_with_retries and its cooperative twin, the response *)
(* handling of _handle_response_data / _handle_typed_response, the error   *)
(* classification of _make_http_error, the best-effort message extraction  *)
(* of _parse_envelope, the backoff of _compute_backoff, the adapter cache  *)
(* of _get_adapter, the raw adapter, close(), APIResponse.require_data,    *)
(* and the construction of a client from arguments, env file and           *)
(* environment.                                                            *)
(*                                                                         *)
(* Durations are counted in half seconds: 0.5 s is 1, 8.0 s is 16.          *)
(***************************************************************************)
EXTENDS Integers, Sequences, FiniteSets, TLC

\* ------------------------------------------------------------------ bounds

\* The largest max_retries a client of the model is constructed with.
MaxRetriesBound == 2

\* The largest attempt index _compute_backoff is applied to.
MaxBackoffAttempt == 6

\* The threads that call _get_adapter, and the calls each of them makes.
NumThreads == 2
MaxGets == 2

\* The close() calls made on a transport, and on a raw adapter.
MaxCloses == 2

\* The logical calls in flight on one transport at a time.
NumCalls == 2

\* ------------------------------------------------------- program constants

\* _RETRY_STATUS_CODES
RETRY_STATUS_CODES == {408, 429, 500, 502, 503, 504}

\* min(2**attempt * 0.5, 8.0): the cap of 8.0 s, in half seconds.
BackoffCap == 16

\* raw_text[:200]: the length of the excerpt in the "Expected JSON" message.
ExcerptLen == 200

\* Status codes a server of the model answers with: 1xx, 2xx, 3xx, the 4xx
\* and 5xx codes the classification names, and one unnamed code of each.
Statuses ==
    {101, 200, 204, 302, 400, 401, 403, 404, 408, 422, 429,
     500, 502, 503, 504}

\* httpx.TransportError subclasses a network attempt ends in.
TransportErrors == {"ConnectError", "ReadTimeout"}

\* Declared payload shapes (the response_type of request_typed).
Shapes == {"S1", "S2"}

\* ------------------------------------------------------------- JSON bodies

\* The values of the "data" key: missing, null, "d1" (a value of shape S1),
\* "d2" (a value of shape S2).
DataValues == {"absent", "null", "d1", "d2"}

\* TypeAdapter(APIResponse[T]) accepts data when it is of the shape T.
Conforms(d, T) == (d = "d1" /\ T = "S1") \/ (d = "d2" /\ T = "S2")

\* The values of the "success" key: missing, true, false, the number 1
\* (pydantic's lax bool reads it as true), and a string that is no bool.
SuccessValues == {"absent", "true", "false", "one", "junk"}

\* The values of the "meta" key: missing, null, an object APIMeta accepts,
\* a value it rejects (a string).
MetaValues == {"absent", "null", "valid", "junk"}

\* One element of an "errors" list: ok says whether APIRespError accepts it.
ErrItem(ok, m) == [ok |-> ok, message |-> m]
BadItem == ErrItem(FALSE, "")

\* The values of the "errors" key: missing, null, a number, or a list.
ErrAbsent == [t |-> "absent", items |-> <<>>]
ErrNull == [t |-> "null", items |-> <<>>]
ErrJunk == [t |-> "junk", items |-> <<>>]
ErrList(items) == [t |-> "list", items |-> items]

ErrorsValues ==
    {ErrAbsent, ErrNull, ErrJunk,
     ErrList(<<>>),
     ErrList(<<ErrItem(TRUE, "E1")>>),
     ErrList(<<ErrItem(TRUE, "")>>),
     ErrList(<<BadItem>>),
     ErrList(<<ErrItem(TRUE, "E1"), ErrItem(TRUE, "E2")>>),
     ErrList(<<ErrItem(TRUE, ""), ErrItem(TRUE, "E2")>>),
     ErrList(<<ErrItem(TRUE, "E1"), BadItem>>)}

\* A message that is not a str (the number 5 of {"detail": [{"msg": 5}]}).
NonStr == "<int 5>"

\* The values of the "detail" key:
\*   absent                        no such key
\*   str v                         a string v
\*   emptylist                     []
\*   dictmsg v                     [{"msg": v, ...}]   (v may be NonStr)
\*   dictnomsg                     [{"loc": ...}]      (no "msg" key)
\*   scalar v                      [7]                 (v = str(7))
\*   other                         an object, a number, null
Det(t, v) == [t |-> t, v |-> v]
DetAbsent == Det("absent", "")

DetailValues ==
    {DetAbsent, Det("str", "D"), Det("str", ""), Det("emptylist", ""),
     Det("dictmsg", "M"), Det("dictmsg", NonStr), Det("dictnomsg", ""),
     Det("scalar", "7"), Det("other", "")}

\* A response body. t is what the text is:
\*   nonjson        not JSON (response.json() raises)
\*   null           the JSON null
\*   number, bool   a JSON number, a JSON boolean
\*   string         a JSON string without the text "detail" in it
\*   string_detail  a JSON string with the text "detail" in it
\*   array          a JSON array without an element "detail"
\*   array_detail   a JSON array with an element "detail"
\*   object         a JSON object with the keys below
\* len is the number of characters of the text; it is recorded for the
\* texts response handling cuts an excerpt from (those that are not JSON,
\* and null) and is 0 for every other text.
Body(t, s, d, m, e, dt) ==
    [t |-> t, success |-> s, data |-> d, meta |-> m, errors |-> e,
     detail |-> dt, len |-> IF t = "null" THEN 4 ELSE 0]

NonObject(t) == Body(t, "absent", "absent", "absent", ErrAbsent, DetAbsent)

\* A text of n characters that is not JSON (n = 0: the empty text).
NonJson(n) == [NonObject("nonjson") EXCEPT !.len = n]

\* The lengths of the texts that are not JSON: around the excerpt length,
\* and far from it.
NonJsonLens == {0, 24, ExcerptLen - 1, ExcerptLen, ExcerptLen + 1, 450}

NonObjectBodies ==
    {NonObject(t) : t \in {"nonjson", "null", "number", "bool", "string",
                           "string_detail", "array", "array_detail"}}
    \cup {NonJson(n) : n \in NonJsonLens}

ObjectBodies ==
    {Body("object", s, d, m, e, dt) :
        s \in SuccessValues, d \in DataValues, m \in MetaValues,
        e \in ErrorsValues, dt \in DetailValues}

AllBodies == NonObjectBodies \cup ObjectBodies

\* The Retry-After header: missing, not a number, or a number of half
\* seconds.
NoHint == [t |-> "none", v |-> 0]
JunkHint == [t |-> "junk", v |-> 0]
NumHint(v) == [t |-> "num", v |-> v]

\* Two more headers: the empty string (falsy, float() is not reached), and
\* "nan" (float() accepts it, and max(backoff, nan) is backoff).
EmptyHint == [t |-> "empty", v |-> 0]
NanHint == [t |-> "nan", v |-> 0]

Resp(st, b, h) == [status_code |-> st, body |-> b, retry_after |-> h]

\* The value of a variable that holds no response (Python's None).
NoResponse == Resp(0, NonObject("nonjson"), NoHint)

\* ------------------------------------------------------------ the outcomes

\* The subclasses of NeoTariffHTTPError, and the class itself.
HttpErrorKinds ==
    {"AuthenticationError", "NotFoundError", "ValidationError",
     "RateLimitError", "ServerError", "NeoTariffHTTPError"}

\* The classes deriving from NeoTariffError, and the class itself.
RootKinds ==
    HttpErrorKinds \cup
    {"NeoTariffAPIError", "NeoTariffConnectionError", "NeoTariffError"}

\* How a call ends: kind is "envelope" for a returned APIResponse,
\* "RawResponse" for a returned RawResponse (http_response is its response,
\* parsed is "null" or "envelope", the envelope being in success, data,
\* errors and meta), else the class of the exception raised
\* ("PydanticValidationError" is pydantic's ValidationError, "TypeError" the
\* builtin); "none" while the call runs.
NoOutcome ==
    [kind |-> "none", status_code |-> 0, message |-> "", errors |-> ErrNull,
     meta |-> "null", data |-> "null", success |-> FALSE, cause |-> "None",
     attempts |-> 0, raw_body |-> NonObject("nonjson"),
     excerpt |-> NonObject("nonjson"), http_response |-> NoResponse,
     parsed |-> "null"]

Raised(kind, message) == [NoOutcome EXCEPT !.kind = kind, !.message = message]

\* ------------------------------------------------------ message extraction

\* `key in body` for a body that is not None: "true", "false", or
\* "TypeError" (a number or a boolean is not iterable).  For a string it is
\* a substring test, for an array an element test; the strings and arrays
\* of the model hold neither "meta" nor "errors".
ContainsKey(body, key) ==
    CASE body.t \in {"number", "bool"} -> "TypeError"
      [] body.t \in {"string", "array"} -> "false"
      [] body.t \in {"string_detail", "array_detail"} ->
            IF key = "detail" THEN "true" ELSE "false"
      [] OTHER ->
            IF key = "meta" THEN
                IF body.meta = "absent" THEN "false" ELSE "true"
            ELSE IF key = "errors" THEN
                IF body.errors.t = "absent" THEN "false" ELSE "true"
            ELSE
                IF body.detail.t = "absent" THEN "false" ELSE "true"

\* _parse_envelope, the first try block: the meta, or None when the key is
\* missing, null, rejected by APIMeta, or the lookup raises.
ParseMeta(body) ==
    IF body.t = "object" /\ ContainsKey(body, "meta") = "true"
       /\ body.meta = "valid"
    THEN "valid" ELSE "null"

AllOk(items) == \A i \in 1..Len(items) : items[i].ok

\* _parse_envelope, the second try block: errors and the message after it.
\* The list is assigned only when every element validates; anything raised
\* inside the block is swallowed and leaves errors None.
ParseErrors(body) ==
    IF body.t = "object" /\ ContainsKey(body, "errors") = "true"
       /\ body.errors.t = "list" /\ AllOk(body.errors.items)
    THEN [errors |-> body.errors,
          message |->
              IF Len(body.errors.items) > 0
                 /\ body.errors.items[1].message # ""
              THEN body.errors.items[1].message ELSE "API error"]
    ELSE [errors |-> ErrNull, message |-> "API error"]

\* _parse_envelope, the detail part, outside any try block: the message
\* after it, given the message before it.
DetailMessage(detail, message) ==
    CASE detail.t = "str" -> detail.v
      [] detail.t = "dictmsg" -> detail.v
      [] detail.t = "dictnomsg" -> message
      [] detail.t = "scalar" -> detail.v
      [] OTHER -> message

\* _parse_envelope(body): (meta, errors, message), or raised = TRUE when the
\* detail part raises TypeError: `"detail" in body` on a number or boolean,
\* body["detail"] on a string or an array.
ParseEnvelope(body) ==
    IF body.t \in {"nonjson", "null"} THEN
        [raised |-> FALSE, meta |-> "null", errors |-> ErrNull,
         message |-> "Unknown error"]
    ELSE IF ContainsKey(body, "detail") = "TypeError"
            \/ (ContainsKey(body, "detail") = "true" /\ body.t # "object")
    THEN
        [raised |-> TRUE, meta |-> "null", errors |-> ErrNull,
         message |-> ""]
    ELSE
        [raised |-> FALSE, meta |-> ParseMeta(body),
         errors |-> ParseErrors(body).errors,
         message |->
             IF ContainsKey(body, "detail") = "true"
             THEN DetailMessage(body.detail, ParseErrors(body).message)
             ELSE ParseErrors(body).message]

\* ------------------------------------------------------- error construction

\* _make_http_error: the class chosen for a status code.
HttpErrorClass(status_code) ==
    IF status_code \in {401, 403} THEN "AuthenticationError"
    ELSE IF status_code = 404 THEN "NotFoundError"
    ELSE IF status_code = 422 THEN "ValidationError"
    ELSE IF status_code = 429 THEN "RateLimitError"
    ELSE IF status_code >= 500 THEN "ServerError"
    ELSE "NeoTariffHTTPError"

\* A slip: raw_body is not passed on to the exception.
MakeHttpError_NoRawBody(status_code, body, raw_text) ==
    IF ParseEnvelope(body).raised THEN Raised("TypeError", "")
    ELSE [NoOutcome EXCEPT
            !.kind = HttpErrorClass(status_code),
            !.status_code = status_code,
            !.message = ParseEnvelope(body).message,
            !.errors = ParseEnvelope(body).errors,
            !.meta = ParseEnvelope(body).meta]

\* _make_http_error(status_code, body, raw_text): the exception it returns,
\* or the TypeError that _parse_envelope lets through.
MakeHttpError(status_code, body, raw_text) ==
    IF ParseEnvelope(body).raised THEN Raised("TypeError", "")
    ELSE [NoOutcome EXCEPT
            !.kind = HttpErrorClass(status_code),
            !.status_code = status_code,
            !.message = ParseEnvelope(body).message,
            !.errors = ParseEnvelope(body).errors,
            !.meta = ParseEnvelope(body).meta,
            !.raw_body = raw_text]

\* APIResponse.model_validate(body) for T = "Any", and
\* TypeAdapter(APIResponse[T]).validate_python(body) for a shape T: ok says
\* whether validation passes; the other fields are the parsed envelope.
ValidateEnvelope(body, T) ==
    [ok |-> /\ body.t = "object"
            /\ body.success \in {"true", "false", "one"}
            /\ body.meta # "junk"
            /\ body.errors.t # "junk"
            /\ AllOk(body.errors.items)
            /\ (T = "Any" \/ body.data \in {"absent", "null"}
                \/ Conforms(body.data, T)),
     success |-> body.success \in {"true", "one"},
     meta |-> IF body.meta = "valid" THEN "valid" ELSE "null",
     errors |-> IF body.errors.t = "list" THEN body.errors ELSE ErrNull,
     data |-> IF body.data = "absent" THEN "null" ELSE body.data]

\* A slip: the message of the last error, not the first.
MakeApiError_LastMessage(status_code, parsed) ==
    [NoOutcome EXCEPT
        !.kind = "NeoTariffAPIError",
        !.status_code = status_code,
        !.message =
            IF Len(parsed.errors.items) > 0
               /\ parsed.errors.items[Len(parsed.errors.items)].message # ""
            THEN parsed.errors.items[Len(parsed.errors.items)].message
            ELSE "API returned success=False",
        !.errors = parsed.errors,
        !.meta = parsed.meta]

\* _make_api_error(status_code, parsed)
MakeApiError(status_code, parsed) ==
    [NoOutcome EXCEPT
        !.kind = "NeoTariffAPIError",
        !.status_code = status_code,
        !.message =
            IF Len(parsed.errors.items) > 0
               /\ parsed.errors.items[1].message # ""
            THEN parsed.errors.items[1].message
            ELSE "API returned success=False",
        !.errors = parsed.errors,
        !.meta = parsed.meta]

\* -------------------------------------------------------- response handling

\* response.json() leaves body None: the text is not JSON, or is null.
BodyIsNone(body) == body.t \in {"nonjson", "null"}

\* The envelope returned to the caller.
Envelope(status_code, parsed) ==
    [NoOutcome EXCEPT
        !.kind = "envelope", !.status_code = status_code,
        !.success = parsed.success, !.data = parsed.data,
        !.errors = parsed.errors, !.meta = parsed.meta]

\* raw_text[:n]: the first n characters of the text.
Slice(text, n) == [text EXCEPT !.len = IF text.len <= n THEN text.len ELSE n]

\* The NeoTariffError raised for a body that is None (lines 165-166 and
\* 191-192): its message ends in the excerpt raw_text[:200].
ExpectedJson(raw_text) ==
    [Raised("NeoTariffError", "Expected JSON response, got: ") EXCEPT
        !.excerpt = Slice(raw_text, ExcerptLen)]

\* A slip: the body check comes before the status check.
HandleResponse_BodyFirst(response, T) ==
    IF BodyIsNone(response.body) THEN ExpectedJson(response.body)
    ELSE IF response.status_code >= 400 THEN
        MakeHttpError(response.status_code, response.body, response.body)
    ELSE IF ~ValidateEnvelope(response.body, T).ok THEN
        Raised("PydanticValidationError", "")
    ELSE IF ~ValidateEnvelope(response.body, T).success THEN
        MakeApiError(response.status_code, ValidateEnvelope(response.body, T))
    ELSE Envelope(response.status_code, ValidateEnvelope(response.body, T))

\* _handle_response_data(response) for T = "Any" and
\* _handle_typed_response(response, T) for a shape T: the two differ only
\* in the validator.
HandleResponse(response, T) ==
    IF response.status_code >= 400 THEN
        MakeHttpError(response.status_code, response.body, response.body)
    ELSE IF BodyIsNone(response.body) THEN ExpectedJson(response.body)
    ELSE IF ~ValidateEnvelope(response.body, T).ok THEN
        Raised("PydanticValidationError", "")
    ELSE IF ~ValidateEnvelope(response.body, T).success THEN
        MakeApiError(response.status_code, ValidateEnvelope(response.body, T))
    ELSE Envelope(response.status_code, ValidateEnvelope(response.body, T))

\* A slip: _make_raw handles the response as request does.
MakeRaw_Raising(response) == HandleResponse(response, "Any")

\* _make_raw(response): response.json() and APIResponse.model_validate(body)
\* each in a try block that swallows every exception; the validation is
\* skipped for a body that is None.
MakeRaw(response) ==
    IF ~BodyIsNone(response.body) /\ ValidateEnvelope(response.body, "Any").ok
    THEN [NoOutcome EXCEPT
            !.kind = "RawResponse",
            !.http_response = response,
            !.parsed = "envelope",
            !.success = ValidateEnvelope(response.body, "Any").success,
            !.data = ValidateEnvelope(response.body, "Any").data,
            !.errors = ValidateEnvelope(response.body, "Any").errors,
            !.meta = ValidateEnvelope(response.body, "Any").meta]
    ELSE [NoOutcome EXCEPT
            !.kind = "RawResponse",
            !.http_response = response,
            !.parsed = "null"]

\* The entry points of RawHttpTransport: request and request_typed, both of
\* which call request_raw of the wrapped transport.
RawKinds == {"raw_request", "raw_request_typed"}

\* What request, request_typed and request_raw do with the response that
\* _send_with_retries returns.
Deliver(k, r, T) == IF k \in RawKinds THEN MakeRaw(r) ELSE HandleResponse(r, T)

\* A slip: the adapter is fetched before the status and the body are
\* looked at.
ReachesAdapter_BeforeChecks(response) == TRUE

\* _handle_typed_response calls _get_adapter only after the status check
\* and the body check.
ReachesAdapter(response) ==
    response.status_code < 400 /\ ~BodyIsNone(response.body)

\* ------------------------------------------------------------------ backoff

\* 2**n
RECURSIVE Pow2(_)
Pow2(n) == IF n = 0 THEN 1 ELSE 2 * Pow2(n - 1)

Min(a, b) == IF a <= b THEN a ELSE b
Max(a, b) == IF b > a THEN b ELSE a

\* A slip: a numeric Retry-After replaces the computed value.
ComputeBackoff_HintReplaces(attempt, response) ==
    IF response # NoResponse /\ response.retry_after.t = "num"
    THEN response.retry_after.v
    ELSE Min(Pow2(attempt), BackoffCap)

\* _compute_backoff(attempt, response), in half seconds.
ComputeBackoff(attempt, response) ==
    IF response # NoResponse /\ response.retry_after.t = "num"
    THEN Max(Min(Pow2(attempt), BackoffCap), response.retry_after.v)
    ELSE Min(Pow2(attempt), BackoffCap)

\* ------------------------------------------------------------------- state

VARIABLES
    max_retries,    \* HttpTransport._max_retries
    pc,             \* where the one logical call is: "idle", "attempting"
                    \* (a network request is due), "backoff" (time.sleep is
                    \* due), "done"
    kind,           \* the entry point: "request" or "request_typed"
    response_type,  \* the declared shape T of request_typed, else "Any"
    attempt,        \* the loop variable of _send_with_retries
    last_exc,       \* the local last_exc: "None" or a TransportError
    response,       \* the local response: NoResponse or a response
    calls,          \* the log of the network requests issued so far, each
                    \* with how it ended: a status code or a TransportError
    sleeps,         \* the durations passed to time.sleep so far
    loop,           \* _send_with_retries: "running", "returned", "raised"
    outcome,        \* how the call ended
    adapter_cache,  \* the keys of _adapter_cache
    builds,         \* TypeAdapter constructions per shape
    stored,         \* the values of _adapter_cache: per shape the adapter
                    \* stored, named by its construction number (0: none)
    lock,           \* _adapter_lock: 0 when free, else the thread that
                    \* holds it
    threads,        \* the threads inside _get_adapter
    pool,           \* HttpTransport._client: "open" or "closed"
    a_pool,         \* AsyncHttpTransport._client: "open" or "closed"
    closes,         \* the close() calls made so far, per variant: on
                    \* the raw adapter, on the transport, and whether one
                    \* of them raised
    atask,          \* the locals and the log of one call on the
                    \* AsyncHttpTransport
    procs,          \* the locals and the logs of the calls in flight
                    \* together on one transport
    unwrapped,      \* what APIResponse.require_data gave the caller of the
                    \* one call on the HttpTransport
    client          \* the one NeoTariff / AsyncNeoTariff constructor call:
                    \* its arguments, its environment and how it ended

vars ==
    <<max_retries, pc, kind, response_type, attempt, last_exc, response,
      calls, sleeps, loop, outcome, adapter_cache, builds, stored, lock,
      threads, pool, a_pool, closes, atask, procs, unwrapped, client>>

\* What the actions of one call on the HttpTransport leave alone.
others ==
    <<lock, threads, pool, a_pool, closes, atask, procs, unwrapped, client>>

\* The locals and the log of the one call on the HttpTransport.
callVars ==
    <<max_retries, pc, kind, response_type, attempt, last_exc, response,
      calls, sleeps, loop, outcome>>

\* A thread outside _get_adapter: key is the shape it asked for last,
\* result the adapter it was returned, gets the calls it has made.
IdleThread ==
    [pc |-> "idle", key |-> "none", local |-> 0, result |-> 0, gets |-> 0]

\* The locals of _send_with_retries and the log of a call that has not been
\* entered, on a transport of the variant v ("sync" or "async"); inputs is
\* the sequence of the outcomes the network gave to its attempts, kept by
\* the network side.
NoTask(v) ==
    [variant |-> v, pc |-> "idle", kind |-> "none", response_type |-> "Any",
     attempt |-> 0, last_exc |-> "None", response |-> NoResponse,
     calls |-> <<>>, sleeps |-> <<>>, loop |-> "running",
     outcome |-> NoOutcome, inputs |-> <<>>]

NoCloses == [adapter |-> 0, transport |-> 0, raised |-> FALSE]

\* require_data has not been called: called says whether it has, data is
\* what it returned, raised the exception it raised.
NotUnwrapped == [called |-> FALSE, data |-> "null", raised |-> NoOutcome]

\* A value of a setting in one of its sources.  t is "absent" (None for a
\* constructor argument, no such line in the env file, no such variable in
\* the process environment), "empty" (the empty string, or blanks only),
\* "text" (a string that is no numeral; v tells the strings apart) or
\* "num" (the number v as a constructor argument, its numeral in the env
\* file and in the process environment).
Value(t, v) == [t |-> t, v |-> v]
Absent == Value("absent", 0)

Empty == Value("empty", 0)

\* A setting for each of the four names.
Setting(a, b, t, m) ==
    [api_key |-> a, base_url |-> b, timeout |-> t, max_retries |-> m]

\* No constructor call has been made.  args are the constructor arguments,
\* env_file is "none" (no such argument), "missing" (no file at the path)
\* or "present", file the values of the env file, env those of the
\* process environment; config is what the constructor resolved, passed
\* the keywords of its transport call, raised the exception it raised.
NoClient ==
    [pc |-> "none", variant |-> "sync", env_file |-> "none",
     args |-> Setting(Absent, Absent, Absent, Absent),
     file |-> Setting(Absent, Absent, Absent, Absent),
     env |-> Setting(Absent, Absent, Absent, Absent),
     config |-> Setting(Absent, Absent, Absent, Absent),
     passed |-> {}, raised |-> "None"]

\* HttpTransport with RawHttpTransport, AsyncHttpTransport with
\* RawAsyncHttpTransport.
Variants == {"sync", "async"}

\* The module and the transports before any call: the cache empty, the
\* lock free, the pools open.
Fresh(v) ==
    /\ adapter_cache = {}
    /\ builds = [T \in Shapes |-> 0]
    /\ stored = [T \in Shapes |-> 0]
    /\ lock = 0
    /\ threads = [t \in 1..NumThreads |-> IdleThread]
    /\ pool = "open"
    /\ a_pool = "open"
    /\ closes = [w \in Variants |-> NoCloses]
    /\ atask = NoTask("async")
    /\ procs = [p \in 1..NumCalls |-> NoTask(v)]
    /\ unwrapped = NotUnwrapped
    /\ client = NoClient

\* The responses the server of the retry specification answers with.  The
\* loop reads the status code and the Retry-After header only, so a
\* retryable status comes with each header case and two bodies (a JSON
\* number, and {"detail": "D"}), every other status with no header and one
\* body of each kind.
RetryHints == {NoHint, NumHint(20)}

RetriedBodies ==
    {NonObject("number"),
     Body("object", "absent", "absent", "absent", ErrAbsent, Det("str", "D"))}

FinalBodies ==
    RetriedBodies \cup
    {NonObject("nonjson"),
     Body("object", "true", "d1", "valid", ErrNull, DetAbsent),
     Body("object", "false", "null", "null",
          ErrList(<<ErrItem(TRUE, "E1")>>), DetAbsent)}

RetryResponses ==
    {Resp(st, b, h) :
        st \in RETRY_STATUS_CODES, b \in RetriedBodies, h \in RetryHints}
    \cup
    {Resp(st, b, NoHint) :
        st \in Statuses \ RETRY_STATUS_CODES, b \in FinalBodies}

\* The responses of the handling specification: every body, no header.
AllResponses == {Resp(st, b, NoHint) : st \in Statuses, b \in AllBodies}

\* A transport with max_retries = mr on which the one call of the flat
\* variables has not been entered.
IdleCall(mr) ==
    /\ max_retries = mr
    /\ pc = "idle"
    /\ kind = "none"
    /\ response_type = "Any"
    /\ attempt = 0
    /\ last_exc = "None"
    /\ response = NoResponse
    /\ calls = <<>>
    /\ sleeps = <<>>
    /\ loop = "running"
    /\ outcome = NoOutcome

\* The state after HttpTransport.__init__: nothing issued, the cache empty.
Constructed(mr) == IdleCall(mr) /\ Fresh("sync")

Init == \E mr \in 0..MaxRetriesBound : Constructed(mr)

\* request(...) and request_typed(..., response_type = T) are entered: the
\* locals of _send_with_retries are initialised.
StartCall(k, T) ==
    /\ pc = "idle"
    /\ pc' = "attempting"
    /\ kind' = k
    /\ response_type' = T
    /\ attempt' = 0
    /\ last_exc' = "None"
    /\ response' = NoResponse
    /\ loop' = "running"
    /\ UNCHANGED <<max_retries, calls, sleeps, outcome, adapter_cache, builds,
                   stored>>

\* _get_adapter(T) with one thread: a miss builds and stores the adapter.
GetAdapterCache(cache, T) == cache \cup {T}
GetAdapterBuilds(cache, b, T) ==
    IF T \in cache THEN b ELSE [b EXCEPT ![T] = @ + 1]
GetAdapterStored(cache, st, b, T) ==
    IF T \in cache THEN st ELSE [st EXCEPT ![T] = b[T] + 1]

\* _send_with_retries returns r to request / request_typed, which hands it
\* to response handling; the call ends.
Return(r) ==
    /\ pc' = "done"
    /\ loop' = "returned"
    /\ outcome' = [Deliver(kind, r, response_type) EXCEPT
                      !.attempts = Len(calls) + 1]
    /\ IF kind = "request_typed" /\ ReachesAdapter(r)
       THEN /\ adapter_cache' = GetAdapterCache(adapter_cache, response_type)
            /\ builds' = GetAdapterBuilds(adapter_cache, builds, response_type)
            /\ stored' = GetAdapterStored(adapter_cache, stored, builds,
                                          response_type)
       ELSE UNCHANGED <<adapter_cache, builds, stored>>

\* A slip in the message and the count: the retries, not the attempts.
ConnectionError_CountsRetries(exc, mr) ==
    [NoOutcome EXCEPT
        !.kind = "NeoTariffConnectionError",
        !.message = "Request failed after N attempts",
        !.attempts = mr,
        !.cause = exc]

\* The NeoTariffConnectionError raised after the loop (lines 314-317): its
\* message names max_retries + 1 attempts, its cause is last_exc.
ConnectionError(exc, mr) ==
    [NoOutcome EXCEPT
        !.kind = "NeoTariffConnectionError",
        !.message = "Request failed after N attempts",
        !.attempts = mr + 1,
        !.cause = exc]

\* A slip: the early return is missing, the response is returned after the
\* loop only.
ReturnsAtOnce_Missing(r) == FALSE

\* A slip: every status from 400 on is retried.
ReturnsAtOnce_Below400(r) == r.status_code < 400

\* Is the response returned from inside the loop (lines 302-303)?
ReturnsAtOnce(r) == r.status_code \notin RETRY_STATUS_CODES

\* A slip: no backoff at all between the attempts.
BackoffDue_Never(n, mr) == FALSE

\* A slip: a backoff after the last attempt too.
BackoffDue_AlsoLast(n, mr) == n <= mr

\* Is a backoff due after the attempt with index n (line 310)?
BackoffDue(n, mr) == n < mr

\* A slip: range(max_retries + 2).
InRange_OneMore(n, mr) == n < mr + 2

\* Is n an index of the loop, range(max_retries + 1) (line 297)?
InRange(n, mr) == n < mr + 1

\* The end of an iteration whose attempt left last_exc = exc and
\* response = r: the next iteration, or the code after the loop
\* (lines 314-321), which raises for a recorded exception and else returns
\* the response, after asserting that there is one.
EndIteration(exc, r) ==
    IF InRange(attempt + 1, max_retries) THEN
        /\ attempt' = attempt + 1
        /\ pc' = "attempting"
        /\ UNCHANGED <<loop, outcome, adapter_cache, builds, stored>>
    ELSE IF exc # "None" THEN
        /\ pc' = "done"
        /\ loop' = "raised"
        /\ outcome' = ConnectionError(exc, max_retries)
        /\ UNCHANGED <<attempt, adapter_cache, builds, stored>>
    ELSE IF r = NoResponse THEN
        /\ pc' = "done"
        /\ loop' = "raised"
        /\ outcome' = Raised("AssertionError", "")
        /\ UNCHANGED <<attempt, adapter_cache, builds, stored>>
    ELSE
        /\ Return(r)
        /\ UNCHANGED attempt

\* After the try statement of an iteration: the backoff if one is due, else
\* the end of the iteration.
AfterAttempt(exc, r) ==
    IF BackoffDue(attempt, max_retries) THEN
        /\ pc' = "backoff"
        /\ UNCHANGED <<attempt, loop, outcome, adapter_cache, builds,
                       stored>>
    ELSE EndIteration(exc, r)

\* A slip: line 304 is missing, a retryable response leaves last_exc as
\* it was.
ClearedExc_Kept(exc) == exc

\* last_exc after a retryable response (line 304): None.
ClearedExc(exc) == "None"

\* An entry of the log of network requests.
Answered(r) == [status_code |-> r.status_code, exc |-> "None"]
Failed(exc) == [status_code |-> 0, exc |-> exc]

\* One iteration of the loop in which self._client.request returns r.
AttemptResponse(r) ==
    /\ pc = "attempting"
    /\ calls' = Append(calls, Answered(r))
    /\ response' = r
    /\ IF ReturnsAtOnce(r) THEN
            /\ Return(r)
            /\ UNCHANGED <<attempt, last_exc>>
       ELSE /\ last_exc' = ClearedExc(last_exc)
            /\ AfterAttempt(ClearedExc(last_exc), r)
    /\ UNCHANGED <<max_retries, kind, response_type, sleeps>>

\* One iteration of the loop in which self._client.request raises the
\* TransportError exc.
AttemptException(exc) ==
    /\ pc = "attempting"
    /\ calls' = Append(calls, Failed(exc))
    /\ response' = NoResponse
    /\ last_exc' = exc
    /\ AfterAttempt(exc, NoResponse)
    /\ UNCHANGED <<max_retries, kind, response_type, sleeps>>

\* time.sleep(_compute_backoff(attempt, response)) returns; the iteration
\* ends.
TimeSleep ==
    /\ pc = "backoff"
    /\ sleeps' = Append(sleeps, ComputeBackoff(attempt, response))
    /\ EndIteration(last_exc, response)
    /\ UNCHANGED <<max_retries, kind, response_type, last_exc, response,
                   calls>>

CallKinds == {<<"request", "Any">>} \cup {<<"request_typed", T>> : T \in Shapes}

\* The network answers the request that is due with any response of rs.
Answer(rs) ==
    /\ pc = "attempting"
    /\ pool = "open"
    /\ \E r \in rs : AttemptResponse(r)
    /\ UNCHANGED others

\* The request that is due fails with any TransportError.
Fail ==
    /\ pc = "attempting"
    /\ pool = "open"
    /\ \E exc \in TransportErrors : AttemptException(exc)
    /\ UNCHANGED others

\* The sleep that is due ends.
Backoff == TimeSleep /\ UNCHANGED others

\* A caller enters request or request_typed.
Call ==
    /\ pc = "idle"
    /\ \E c \in CallKinds : StartCall(c[1], c[2])
    /\ UNCHANGED others

Next ==
    \/ Call
    \/ Answer(RetryResponses)
    \/ Fail
    \/ Backoff

Spec == Init /\ [][Next]_vars

\* Response handling on its own: a client with max_retries = 0, so that the
\* response of the only attempt, whatever its status, is the one handled.
HandleInit == Constructed(0)

HandleNext ==
    \/ Call
    \/ Answer(AllResponses)

HandleSpec == HandleInit /\ [][HandleNext]_vars

\* _compute_backoff on its own.  The headers it is given: none, each kind
\* that is no number, and numbers below, at and above the computed values
\* and the cap (a negative one too: float() accepts it).
BackoffHints ==
    {NoHint, JunkHint, EmptyHint, NanHint}
    \cup {NumHint(v) : v \in {0 - 4, 0, 1, 3, 10, BackoffCap, BackoffCap + 1, 40}}

BackoffResponses ==
    {NoResponse} \cup
    {Resp(st, NonObject("number"), h) : st \in {429, 503}, h \in BackoffHints}

\* A call of a client with max_retries = n + 1 at the time.sleep of the
\* iteration with index n: the n attempts before it raised ConnectError and
\* were followed by the backoffs computed for no response; the attempt of
\* this iteration was answered r, or raised when r is NoResponse.
AtBackoff(n, r) ==
    /\ max_retries = n + 1
    /\ pc = "backoff"
    /\ kind = "request"
    /\ response_type = "Any"
    /\ attempt = n
    /\ last_exc = (IF r = NoResponse THEN "ReadTimeout" ELSE "None")
    /\ response = r
    /\ calls = [i \in 1..(n + 1) |->
                   IF i <= n THEN Failed("ConnectError")
                   ELSE IF r = NoResponse THEN Failed("ReadTimeout")
                   ELSE Answered(r)]
    /\ sleeps = [i \in 1..n |-> ComputeBackoff(i - 1, NoResponse)]
    /\ loop = "running"
    /\ outcome = NoOutcome
    /\ Fresh("sync")

BackoffInit ==
    \E n \in 0..MaxBackoffAttempt, r \in BackoffResponses : AtBackoff(n, r)

BackoffNext == Backoff

BackoffSpec == BackoffInit /\ [][BackoffNext]_vars

\* The raw adapter: RawHttpTransport.request(...) and
\* RawHttpTransport.request_typed(..., response_type = T) on a wrapped
\* HttpTransport.
RawCallKinds ==
    {<<"raw_request", "Any">>} \cup {<<"raw_request_typed", T>> : T \in Shapes}

\* A caller enters request or request_typed of the raw adapter.
RawCall ==
    /\ pc = "idle"
    /\ \E c \in RawCallKinds : StartCall(c[1], c[2])
    /\ UNCHANGED others

\* The delivery of the raw adapter on its own: max_retries = 0, every body.
RawHandleNext ==
    \/ RawCall
    \/ Answer(AllResponses)

RawHandleSpec == HandleInit /\ [][RawHandleNext]_vars

\* The retry loop under the raw adapter, next to request of the wrapped
\* transport itself.
RawRetryCall ==
    /\ pc = "idle"
    /\ \E c \in {<<"request", "Any">>, <<"raw_request", "Any">>,
                  <<"raw_request_typed", "S1">>} : StartCall(c[1], c[2])
    /\ UNCHANGED others

RawRetryNext ==
    \/ RawRetryCall
    \/ Answer(RetryResponses)
    \/ Fail
    \/ Backoff

RawRetrySpec == Init /\ [][RawRetryNext]_vars

\* Every entry point next to the others: request and request_typed of the
\* transport, request and request_typed of its raw adapter, on a client
\* whose max_retries stays one below the largest of the retry
\* specification.
FrameInit == \E mr \in 0..(MaxRetriesBound - 1) : Constructed(mr)

FrameCall ==
    /\ pc = "idle"
    /\ \E c \in CallKinds \cup RawCallKinds : StartCall(c[1], c[2])
    /\ UNCHANGED others

FrameNext ==
    \/ FrameCall
    \/ Answer(RetryResponses)
    \/ Fail
    \/ Backoff

FrameSpec == FrameInit /\ [][FrameNext]_vars

\* --------------------------------------- the loop on the locals of a call

\* The three tests of _send_with_retries, for the transport of the variant
\* v: AsyncHttpTransport repeats them at lines 427, 433 and 421.
LoopReturnsAtOnce(v, r) ==
    IF v = "async" THEN r.status_code \notin RETRY_STATUS_CODES
    ELSE ReturnsAtOnce(r)

\* A slip: the cooperative loop never sleeps.
LoopBackoffDue_AsyncNever(v, n, mr) ==
    IF v = "async" THEN FALSE ELSE BackoffDue(n, mr)

LoopBackoffDue(v, n, mr) ==
    IF v = "async" THEN n < mr ELSE BackoffDue(n, mr)

LoopInRange(v, n, mr) ==
    IF v = "async" THEN n < mr + 1 ELSE InRange(n, mr)

\* request, request_typed or request_raw is entered by the call with the
\* locals c: the locals of _send_with_retries are initialised.
TaskStart(c, k, T) ==
    [c EXCEPT !.pc = "attempting", !.kind = k, !.response_type = T,
              !.attempt = 0, !.last_exc = "None", !.response = NoResponse,
              !.loop = "running"]

\* _send_with_retries returns r, which is delivered.
TaskReturn(c, r) ==
    [c EXCEPT !.pc = "done", !.loop = "returned",
              !.outcome = [Deliver(c.kind, r, c.response_type) EXCEPT
                              !.attempts = Len(c.calls)]]

\* The end of an iteration: the next one, or the code after the loop.
TaskEndIteration(c, mr) ==
    IF LoopInRange(c.variant, c.attempt + 1, mr) THEN
        [c EXCEPT !.attempt = @ + 1, !.pc = "attempting"]
    ELSE IF c.last_exc # "None" THEN
        [c EXCEPT !.pc = "done", !.loop = "raised",
                  !.outcome = ConnectionError(c.last_exc, mr)]
    ELSE IF c.response = NoResponse THEN
        [c EXCEPT !.pc = "done", !.loop = "raised",
                  !.outcome = Raised("AssertionError", "")]
    ELSE TaskReturn(c, c.response)

\* After the try statement: the backoff if one is due.
TaskAfterAttempt(c, mr) ==
    IF LoopBackoffDue(c.variant, c.attempt, mr)
    THEN [c EXCEPT !.pc = "backoff"]
    ELSE TaskEndIteration(c, mr)

\* One iteration in which the request returns r.
TaskAttemptResponse(c, r, mr) ==
    IF LoopReturnsAtOnce(c.variant, r) THEN
        TaskReturn([c EXCEPT !.calls = Append(@, Answered(r)),
                             !.response = r], r)
    ELSE
        TaskAfterAttempt([c EXCEPT !.calls = Append(@, Answered(r)),
                                   !.response = r,
                                   !.last_exc = "None"], mr)

\* One iteration in which the request raises the TransportError exc.
TaskAttemptException(c, exc, mr) ==
    TaskAfterAttempt([c EXCEPT !.calls = Append(@, Failed(exc)),
                               !.response = NoResponse,
                               !.last_exc = exc], mr)

\* The sleep of the backoff returns; the iteration ends.
TaskSleep(c, mr) ==
    TaskEndIteration(
        [c EXCEPT !.sleeps = Append(@, ComputeBackoff(c.attempt, c.response))],
        mr)

\* The step from the locals c to d handed a response to
\* _handle_typed_response that reaches _get_adapter.
TaskReachesAdapter(c, d) ==
    /\ c.pc # "done"
    /\ d.pc = "done"
    /\ d.loop = "returned"
    /\ d.kind = "request_typed"
    /\ ReachesAdapter(d.response)

\* The cache after the step from c to d.
TaskCache(c, d) ==
    IF TaskReachesAdapter(c, d)
    THEN /\ adapter_cache' = GetAdapterCache(adapter_cache, d.response_type)
         /\ builds' = GetAdapterBuilds(adapter_cache, builds, d.response_type)
         /\ stored' = GetAdapterStored(adapter_cache, stored, builds,
                                       d.response_type)
    ELSE UNCHANGED <<adapter_cache, builds, stored>>

\* ------------------------------------ the two transports on the same input

\* One call on an HttpTransport and one on an AsyncHttpTransport of the
\* same configuration, entered with the same arguments.  The network
\* answers the blocking call; the cooperative call is given, attempt by
\* attempt, the outcome the blocking call got.
PairKinds ==
    {<<"request", "Any">>, <<"request_typed", "S1">>, <<"raw_request", "Any">>}

PairResponses ==
    {Resp(st, NonObject("number"), h) : st \in {429, 503}, h \in RetryHints}
    \cup {Resp(st, b, NoHint) : st \in {200, 404}, b \in FinalBodies}

\* The cooperative call has been given every outcome the blocking call got.
InStep == atask.pc = "attempting" /\ Len(atask.calls) = Len(calls)

PairCall ==
    /\ pc = "idle"
    /\ atask.pc = "idle"
    /\ \E c \in PairKinds :
          /\ StartCall(c[1], c[2])
          /\ atask' = TaskStart(atask, c[1], c[2])
    /\ UNCHANGED <<lock, threads, pool, a_pool, closes, procs, unwrapped,
                   client>>

PairAnswer == InStep /\ Answer(PairResponses)

PairFail == InStep /\ Fail

\* await self._client.request(...) ends as the attempt of the same index
\* of the blocking call did.
AsyncFollow ==
    /\ atask.pc = "attempting"
    /\ Len(atask.calls) < Len(calls)
    /\ a_pool = "open"
    /\ atask' = IF calls[Len(atask.calls) + 1].exc # "None"
                THEN TaskAttemptException(
                         atask, calls[Len(atask.calls) + 1].exc, max_retries)
                ELSE TaskAttemptResponse(atask, response, max_retries)
    /\ TaskCache(atask, atask')
    /\ UNCHANGED <<callVars, lock, threads, pool, a_pool, closes, procs,
                   unwrapped, client>>

\* await asyncio.sleep(backoff) returns.
AsyncSleep ==
    /\ atask.pc = "backoff"
    /\ atask' = TaskSleep(atask, max_retries)
    /\ TaskCache(atask, atask')
    /\ UNCHANGED <<callVars, lock, threads, pool, a_pool, closes, procs,
                   unwrapped, client>>

PairNext ==
    \/ PairCall
    \/ PairAnswer
    \/ PairFail
    \/ Backoff
    \/ AsyncFollow
    \/ AsyncSleep

PairSpec == Init /\ [][PairNext]_vars

\* ------------------------------------------- calls in flight together

\* An outcome of an attempt: the response, or the TransportError raised.
Got(r) == [exc |-> "None", r |-> r]
Threw(exc) == [exc |-> exc, r |-> NoResponse]

\* A slip: the locals are kept on the transport, which the calls share.
LocalsOf_Shared(all, p) == all[1]

\* The locals of the call p: those of its own activation of
\* _send_with_retries.
LocalsOf(all, p) == all[p]

ConcResponses ==
    {Resp(200, Body("object", "true", "d1", "valid", ErrNull, DetAbsent),
          NoHint),
     Resp(503, NonJson(24), NumHint(20))}

\* What a step of one of the calls in flight leaves alone.
outsideProcs ==
    <<callVars, adapter_cache, builds, stored, lock, threads, pool, a_pool,
      closes, atask, unwrapped, client>>

\* The call p takes the step that leads from its locals to d, the network
\* having given it the outcomes ins so far.
ProcStep(p, d, ins) ==
    /\ procs' = [procs EXCEPT ![p] = [d EXCEPT !.inputs = ins]]
    /\ UNCHANGED outsideProcs

\* A thread, or a task, enters request on the transport.
ProcCall ==
    \E p \in 1..NumCalls :
        /\ procs[p].pc = "idle"
        /\ ProcStep(p, TaskStart(LocalsOf(procs, p), "request", "Any"), <<>>)

\* The request that is due for one of the calls is answered.
ProcAnswer ==
    \E p \in 1..NumCalls :
        /\ procs[p].pc = "attempting"
        /\ \E r \in ConcResponses :
              ProcStep(p, TaskAttemptResponse(LocalsOf(procs, p), r, max_retries),
                       Append(procs[p].inputs, Got(r)))

\* The request that is due for one of the calls fails.
ProcFail ==
    \E p \in 1..NumCalls :
        /\ procs[p].pc = "attempting"
        /\ ProcStep(p, TaskAttemptException(LocalsOf(procs, p), "ConnectError",
                                            max_retries),
                    Append(procs[p].inputs, Threw("ConnectError")))

\* The sleep of one of the calls ends.
ProcSleep ==
    \E p \in 1..NumCalls :
        /\ procs[p].pc = "backoff"
        /\ ProcStep(p, TaskSleep(LocalsOf(procs, p), max_retries),
                    procs[p].inputs)

\* One transport, blocking or cooperative, and the calls in flight on it;
\* max_retries stays one below the largest of the other specifications.
ConcInit ==
    \E mr \in 0..(MaxRetriesBound - 1), v \in Variants :
        IdleCall(mr) /\ Fresh(v)

ConcNext ==
    \/ ProcCall
    \/ ProcAnswer
    \/ ProcFail
    \/ ProcSleep

ConcSpec == ConcInit /\ [][ConcNext]_vars

\* ------------------------------------------------------------------ close

\* A slip: close() on a closed transport raises.
CloseResult_RaisesWhenClosed(p) == [pool |-> "closed", raised |-> p = "closed"]

\* HttpTransport.close and AsyncHttpTransport.close on a transport whose
\* client is in the state p: self._client.close() / aclose(), which closes
\* an open client and does nothing to a closed one.
CloseResult(p) == [pool |-> "closed", raised |-> FALSE]

\* A slip: the adapter closes the transport it wraps.
RawCloseResult_ClosesInner(p) == CloseResult(p)

\* RawHttpTransport.close and RawAsyncHttpTransport.close: pass.
RawCloseResult(p) == [pool |-> p, raised |-> FALSE]

PoolOf(v) == IF v = "sync" THEN pool ELSE a_pool

\* close() is called for the c-th receiver ("transport" or "adapter") of
\* the variant v, with the result res.
Closed(v, c, res) ==
    /\ closes[v][c] < MaxCloses
    /\ closes' = [closes EXCEPT ![v][c] = @ + 1,
                                ![v].raised = @ \/ res.raised]
    /\ IF v = "sync" THEN pool' = res.pool /\ UNCHANGED a_pool
       ELSE a_pool' = res.pool /\ UNCHANGED pool
    /\ UNCHANGED <<callVars, adapter_cache, builds, stored, lock, threads,
                   atask, procs, unwrapped, client>>

\* close() of a transport, also through close() or the end of the with
\* block of the client that owns it.
TransportClose == \E v \in Variants : Closed(v, "transport", CloseResult(PoolOf(v)))

\* close() of a raw adapter, also through close() or the end of the with
\* block of a with_raw_response client.
AdapterClose == \E v \in Variants : Closed(v, "adapter", RawCloseResult(PoolOf(v)))

\* A request on a closed client: httpx raises RuntimeError, which is no
\* TransportError and leaves the loop.
ClosedClientError ==
    Raised("RuntimeError",
           "Cannot send a request, as the client has been closed.")

ClosedAttempt ==
    /\ pc = "attempting"
    /\ pool = "closed"
    /\ pc' = "done"
    /\ loop' = "raised"
    /\ outcome' = ClosedClientError
    /\ UNCHANGED <<max_retries, kind, response_type, attempt, last_exc,
                   response, calls, sleeps, adapter_cache, builds, stored,
                   others>>

AsyncClosedAttempt ==
    /\ atask.pc = "attempting"
    /\ a_pool = "closed"
    /\ atask' = [atask EXCEPT !.pc = "done", !.loop = "raised",
                              !.outcome = ClosedClientError]
    /\ UNCHANGED <<callVars, adapter_cache, builds, stored, lock, threads,
                   pool, a_pool, closes, procs, unwrapped, client>>

\* The calls of the close specification: through the transport, and
\* through the raw adapter.
CloseKinds == {<<"request", "Any">>, <<"raw_request", "Any">>}

CloseResponses ==
    {Resp(200, Body("object", "true", "d1", "valid", ErrNull, DetAbsent),
          NoHint),
     Resp(500, NonJson(24), NoHint)}

CloseCall ==
    /\ pc = "idle"
    /\ \E c \in CloseKinds : StartCall(c[1], c[2])
    /\ UNCHANGED others

AsyncCall ==
    /\ atask.pc = "idle"
    /\ \E c \in CloseKinds : atask' = TaskStart(atask, c[1], c[2])
    /\ UNCHANGED <<callVars, adapter_cache, builds, stored, lock, threads,
                   pool, a_pool, closes, procs, unwrapped, client>>

AsyncAnswer ==
    /\ atask.pc = "attempting"
    /\ a_pool = "open"
    /\ \E r \in CloseResponses :
          atask' = TaskAttemptResponse(atask, r, max_retries)
    /\ UNCHANGED <<callVars, adapter_cache, builds, stored, lock, threads,
                   pool, a_pool, closes, procs, unwrapped, client>>

\* Transports with max_retries = 0, their raw adapters, and one call on
\* each pair.
CloseNext ==
    \/ CloseCall
    \/ Answer(CloseResponses)
    \/ ClosedAttempt
    \/ AsyncCall
    \/ AsyncAnswer
    \/ AsyncClosedAttempt
    \/ TransportClose
    \/ AdapterClose

CloseSpec == HandleInit /\ [][CloseNext]_vars

\* ------------------------------------------- _get_adapter, thread by thread

\* `response_type not in _adapter_cache`, outside the lock (line 59) and
\* under it (line 61).
MissesOutsideLock(cache, T) == T \notin cache

\* A slip: no second test under the lock.
MissesUnderLock_NoRecheck(cache, T) == TRUE

MissesUnderLock(cache, T) == T \notin cache

\* What a step of _get_adapter leaves alone.
outsideCache ==
    <<callVars, pool, a_pool, closes, atask, procs, unwrapped, client>>

\* A thread calls _get_adapter(T).
EnterGet ==
    /\ \E t \in 1..NumThreads, T \in Shapes :
          /\ threads[t].pc = "idle"
          /\ threads[t].gets < MaxGets
          /\ threads' = [threads EXCEPT ![t] =
                            [pc |-> "check", key |-> T, local |-> 0,
                             result |-> 0, gets |-> @.gets + 1]]
    /\ UNCHANGED <<adapter_cache, builds, stored, lock, outsideCache>>

\* Line 59: the test outside the lock.
CheckOutside ==
    /\ \E t \in 1..NumThreads :
          /\ threads[t].pc = "check"
          /\ threads' = [threads EXCEPT ![t].pc =
                            IF MissesOutsideLock(adapter_cache, threads[t].key)
                            THEN "acquire" ELSE "return"]
    /\ UNCHANGED <<adapter_cache, builds, stored, lock, outsideCache>>

\* Line 60: `with _adapter_lock` is entered when the lock is free.
AcquireLock ==
    /\ lock = 0
    /\ \E t \in 1..NumThreads :
          /\ threads[t].pc = "acquire"
          /\ lock' = t
          /\ threads' = [threads EXCEPT ![t].pc = "recheck"]
    /\ UNCHANGED <<adapter_cache, builds, stored, outsideCache>>

\* Line 61: the test under the lock.
CheckUnderLock ==
    /\ \E t \in 1..NumThreads :
          /\ threads[t].pc = "recheck"
          /\ threads' = [threads EXCEPT ![t].pc =
                            IF MissesUnderLock(adapter_cache, threads[t].key)
                            THEN "build" ELSE "release"]
    /\ UNCHANGED <<adapter_cache, builds, stored, lock, outsideCache>>

\* Lines 62-64, the right-hand side: TypeAdapter(APIResponse[T]) is built.
BuildAdapter ==
    /\ \E t \in 1..NumThreads :
          /\ threads[t].pc = "build"
          /\ builds' = [builds EXCEPT ![threads[t].key] = @ + 1]
          /\ threads' = [threads EXCEPT
                            ![t].pc = "store",
                            ![t].local = builds[threads[t].key] + 1]
    /\ UNCHANGED <<adapter_cache, stored, lock, outsideCache>>

\* Line 62, the assignment: the adapter is stored under the key.
StoreAdapter ==
    /\ \E t \in 1..NumThreads :
          /\ threads[t].pc = "store"
          /\ adapter_cache' = adapter_cache \cup {threads[t].key}
          /\ stored' = [stored EXCEPT ![threads[t].key] = threads[t].local]
          /\ threads' = [threads EXCEPT ![t].pc = "release"]
    /\ UNCHANGED <<builds, lock, outsideCache>>

\* The with block is left: the lock is released.
ReleaseLock ==
    /\ \E t \in 1..NumThreads :
          /\ threads[t].pc = "release"
          /\ lock' = 0
          /\ threads' = [threads EXCEPT ![t].pc = "return"]
    /\ UNCHANGED <<adapter_cache, builds, stored, outsideCache>>

\* Line 65: return _adapter_cache[response_type].
ReturnAdapter ==
    /\ \E t \in 1..NumThreads :
          /\ threads[t].pc = "return"
          /\ threads' = [threads EXCEPT
                            ![t].pc = "idle",
                            ![t].result = stored[threads[t].key]]
    /\ UNCHANGED <<adapter_cache, builds, stored, lock, outsideCache>>

CacheNext ==
    \/ EnterGet
    \/ CheckOutside
    \/ AcquireLock
    \/ CheckUnderLock
    \/ BuildAdapter
    \/ StoreAdapter
    \/ ReleaseLock
    \/ ReturnAdapter

CacheSpec == HandleInit /\ [][CacheNext]_vars

\* A slip: the lock stays with the thread whose build raised.
LockAfterRaise_Held(holder) == holder

\* `with _adapter_lock` (line 60) releases the lock when the block is left
\* by an exception.
LockAfterRaise(holder) == 0

\* Lines 62-64, the right-hand side raises: TypeAdapter cannot build a
\* schema for APIResponse[T]. The assignment of line 62 does not happen,
\* the with block is left and the exception leaves _get_adapter; the thread
\* is back in its caller with no adapter (result -1).
BuildFails ==
    /\ \E t \in 1..NumThreads :
          /\ threads[t].pc = "build"
          /\ lock' = LockAfterRaise(lock)
          /\ threads' = [threads EXCEPT ![t].pc = "idle", ![t].result = -1]
    /\ UNCHANGED <<adapter_cache, builds, stored, outsideCache>>

\* The steps of _get_adapter with a build that may fail; a thread makes one
\* call fewer than in the specification of the cache alone.
CacheFailNext ==
    \/ /\ CacheNext
       /\ \A t \in 1..NumThreads : threads'[t].gets < MaxGets
    \/ BuildFails

\* A thread inside _get_adapter keeps running: the interpreter schedules
\* every thread that can take a step, while no thread has to call
\* _get_adapter again.
CacheFailSpec ==
    /\ HandleInit
    /\ [][CacheFailNext]_vars
    /\ WF_vars(CheckOutside \/ AcquireLock \/ CheckUnderLock \/ BuildAdapter
                 \/ BuildFails \/ StoreAdapter \/ ReleaseLock
                 \/ ReturnAdapter)

\* ----------------------------------------------------------- require_data

\* A slip: the data of an envelope with success=false is withheld too.
RequireData_OnlyOnSuccess(envelope) ==
    IF envelope.data = "null" \/ ~envelope.success
    THEN [data |-> "null", self |-> envelope,
          raised |-> Raised("NeoTariffError", "Response contained no data")]
    ELSE [data |-> envelope.data, self |-> envelope, raised |-> NoOutcome]

\* APIResponse.require_data on the envelope: data is what it returns,
\* raised the exception it raises, self the envelope after the call.
RequireData(envelope) ==
    IF envelope.data = "null"
    THEN [data |-> "null", self |-> envelope,
          raised |-> Raised("NeoTariffError", "Response contained no data")]
    ELSE [data |-> envelope.data, self |-> envelope, raised |-> NoOutcome]

\* The caller unwraps the envelope its call returned, or the one parsed
\* into the RawResponse it returned.
RequireDataCall ==
    /\ pc = "done"
    /\ ~unwrapped.called
    /\ \/ outcome.kind = "envelope"
       \/ (outcome.kind = "RawResponse" /\ outcome.parsed = "envelope")
    /\ unwrapped' = [called |-> TRUE, data |-> RequireData(outcome).data,
                     raised |-> RequireData(outcome).raised]
    /\ outcome' = RequireData(outcome).self
    /\ UNCHANGED <<max_retries, pc, kind, response_type, attempt, last_exc,
                   response, calls, sleeps, loop, adapter_cache, builds,
                   stored, lock, threads, pool, a_pool, closes, atask, procs,
                   client>>

\* The responses of the unwrapping specification: envelopes with each
\* value of data, success true and false, found and not found.
DataResponses ==
    {Resp(st, Body("object", s, d, m, e, DetAbsent), NoHint) :
        st \in {200, 404}, s \in {"true", "false"}, d \in DataValues,
        m \in {"absent", "valid"},
        e \in {ErrNull, ErrList(<<ErrItem(TRUE, "E1")>>)}}

\* One call through the transport or the raw adapter of a client with
\* max_retries = 0, and the unwrapping of what it returned.
DataNext ==
    \/ Call
    \/ RawCall
    \/ Answer(DataResponses)
    \/ RequireDataCall

DataSpec == HandleInit /\ [][DataNext]_vars

\* ----------------------------------------------------- client construction

\* DEFAULT_TIMEOUT (30.0 s) and DEFAULT_MAX_RETRIES.
DefaultTimeout == 30
DefaultMaxRetries == 2

\* DEFAULT_BASE_URL
DefaultBaseUrl == Value("text", 0)

\* `x or ...`: None and the empty string are falsy.
Truthy(x) == x.t \notin {"absent", "empty"}

\* _read_env(name, file_values), f being the value of the name in the env
\* file and e its value in the process environment: a name the file holds
\* is answered from the file, also when its value there is empty.
ReadEnv(f, e) ==
    IF f.t # "absent" THEN (IF f.t = "empty" THEN Absent ELSE f)
    ELSE IF e.t = "empty" THEN Absent
    ELSE e

\* _resolve_timeout (least = 1: `timeout <= 0` is refused) and
\* _resolve_max_retries (least = 0: `max_retries < 0` is refused) for the
\* constructor argument x and the value raw that _read_env gave.
ResolveNumber(x, raw, default, least) ==
    IF x.t # "absent" THEN
        [raised |-> x.v < least, value |-> x]
    ELSE IF raw.t = "absent" THEN
        [raised |-> FALSE, value |-> Value("num", default)]
    ELSE IF raw.t # "num" THEN
        [raised |-> TRUE, value |-> Absent]
    ELSE
        [raised |-> raw.v < least, value |-> raw]

\* resolve_client_config for the constructor call c: the ClientConfig, or
\* the NeoTariffError raised.
ResolveClientConfig(c) ==
    LET fv == IF c.env_file = "present" THEN c.file
              ELSE Setting(Absent, Absent, Absent, Absent)
        key == IF Truthy(c.args.api_key) THEN c.args.api_key
               ELSE ReadEnv(fv.api_key, c.env.api_key)
        url == IF Truthy(c.args.base_url) THEN c.args.base_url
               ELSE IF Truthy(ReadEnv(fv.base_url, c.env.base_url))
               THEN ReadEnv(fv.base_url, c.env.base_url)
               ELSE DefaultBaseUrl
        tmo == ResolveNumber(c.args.timeout,
                             ReadEnv(fv.timeout, c.env.timeout),
                             DefaultTimeout, 1)
        ret == ResolveNumber(c.args.max_retries,
                             ReadEnv(fv.max_retries, c.env.max_retries),
                             DefaultMaxRetries, 0)
    IN  IF c.env_file = "missing" \/ ~Truthy(key) \/ tmo.raised \/ ret.raised
        THEN [raised |-> "NeoTariffError",
              config |-> Setting(Absent, Absent, Absent, Absent)]
        ELSE [raised |-> "None",
              config |-> Setting(key, url, tmo.value, ret.value)]

\* NeoTariff.__init__ up to its transport call (client.py, lines 62-73):
\* the key and the URL are looked up in os.environ when the argument is
\* None, timeout and max_retries are the arguments or their parameter
\* defaults.  The class takes no env file: NeoTariff.from_env_file is no
\* attribute of it.
SyncResolve(c) ==
    LET key == IF c.args.api_key.t = "absent" THEN c.env.api_key
               ELSE c.args.api_key
        url == IF c.args.base_url.t # "absent" THEN c.args.base_url
               ELSE IF c.env.base_url.t # "absent" THEN c.env.base_url
               ELSE DefaultBaseUrl
        tmo == IF c.args.timeout.t = "absent" THEN Value("num", DefaultTimeout)
               ELSE c.args.timeout
        ret == IF c.args.max_retries.t = "absent"
               THEN Value("num", DefaultMaxRetries)
               ELSE c.args.max_retries
    IN  IF c.env_file # "none"
        THEN [raised |-> "AttributeError",
              config |-> Setting(Absent, Absent, Absent, Absent)]
        ELSE IF key.t = "absent"
        THEN [raised |-> "NeoTariffError",
              config |-> Setting(Absent, Absent, Absent, Absent)]
        ELSE [raised |-> "None", config |-> Setting(key, url, tmo, ret)]

\* The keyword parameters of HttpTransport.__init__ and of
\* AsyncHttpTransport.__init__, and the keywords both constructors pass.
TransportParams == {"api_key", "base_url", "timeout", "max_retries"}
ClientPasses == TransportParams \cup {"default_headers"}

\* NeoTariff(...) and AsyncNeoTariff(...) for the call c: the values are
\* resolved, then the transport is called with them; a keyword the
\* transport does not take makes the call raise TypeError before the
\* transport exists.
NewClientResult(c) ==
    LET r == IF c.variant = "async" THEN ResolveClientConfig(c)
             ELSE SyncResolve(c)
    IN  IF r.raised # "None"
        THEN [c EXCEPT !.pc = "raised", !.raised = r.raised]
        ELSE IF ~(ClientPasses \subseteq TransportParams)
        THEN [c EXCEPT !.pc = "raised", !.raised = "TypeError",
                       !.config = r.config, !.passed = ClientPasses]
        ELSE [c EXCEPT !.pc = "built", !.config = r.config,
                       !.passed = ClientPasses]

\* The constructor arguments, the env files and the process environments
\* of the construction specification.
ArgSettings ==
    {Setting(a, b, t, m) :
        a \in {Absent, Empty, Value("text", 1)},
        b \in {Absent, Value("text", 1)},
        t \in {Absent, Value("num", 0), Value("num", 13)},
        m \in {Absent, Value("num", 0 - 1), Value("num", 0)}}

FileSettings ==
    {Setting(a, b, t, m) :
        a \in {Absent, Empty, Value("text", 2)},
        b \in {Absent, Value("text", 2)},
        t \in {Absent, Value("text", 2), Value("num", 11)},
        m \in {Absent, Empty, Value("num", 4)}}

EnvSettings ==
    {Setting(a, b, t, m) :
        a \in {Absent, Empty, Value("text", 3)},
        b \in {Absent, Value("text", 3)},
        t \in {Absent, Value("num", 0), Value("num", 12)},
        m \in {Absent, Value("num", 7)}}

\* A caller constructs a client.
NewClient ==
    /\ client.pc = "none"
    /\ \E v \in Variants, ef \in {"none", "missing", "present"},
          a \in ArgSettings, e \in EnvSettings,
          f \in FileSettings :
          /\ (ef # "present" => f = Setting(Absent, Absent, Absent, Absent))
          /\ client' = NewClientResult(
                 [NoClient EXCEPT !.variant = v, !.env_file = ef, !.args = a,
                                  !.file = f, !.env = e])
    /\ UNCHANGED <<callVars, adapter_cache, builds, stored, lock, threads,
                   pool, a_pool, closes, atask, procs, unwrapped>>

ConfigSpec == HandleInit /\ [][NewClient]_vars

\* ------------------------------------------------------- the retry claims

\* How an attempt of the log ended.
IsRetryable(c) == c.exc # "None" \/ c.status_code \in RETRY_STATUS_CODES
Is2xx(st) == st >= 200 /\ st <= 299

\* The body is the wire envelope {success, data, errors, meta} for the shape
\* T: success a boolean, data null or of the shape, errors null or a list
\* of error items, meta null or a meta object.
IsEnvelope(body, T) ==
    /\ body.t = "object"
    /\ body.success \in {"true", "false"}
    /\ body.meta \in {"absent", "null", "valid"}
    /\ body.errors.t \in {"absent", "null", "list"}
    /\ \A i \in 1..Len(body.errors.items) : body.errors.items[i].ok
    /\ (T = "Any" \/ body.data \in {"absent", "null"} \/ Conforms(body.data, T))

\* C1: when the first k-1 attempts (1 < k) ended in a retryable outcome and
\* attempt k was answered 2xx, no request follows attempt k (k requests are
\* issued), and when the body is a success=true envelope the call returns
\* that envelope.
C1_FirstSuccessEndsCall ==
    \A k \in 2..Len(calls) :
        ((\A i \in 1..(k - 1) : IsRetryable(calls[i]))
         /\ calls[k].exc = "None" /\ Is2xx(calls[k].status_code))
        => /\ Len(calls) = k
           /\ pc = "done"
           /\ loop = "returned"
           /\ outcome.attempts = k
           /\ (IsEnvelope(response.body, response_type)
               /\ response.body.success = "true")
              => /\ outcome.kind = "envelope"
                 /\ outcome.success
                 /\ outcome.status_code = calls[k].status_code
                 /\ outcome.data = (IF response.body.data = "absent"
                                    THEN "null" ELSE response.body.data)

\* A connection error, then a 503, then a 200 with a success envelope: the
\* third request is the last and the envelope is returned.
C1_Witness ==
    /\ pc = "done"
    /\ Len(calls) = 3
    /\ calls[1].exc = "ConnectError"
    /\ calls[2].status_code = 503
    /\ calls[3].status_code = 200
    /\ outcome.kind = "envelope"
    /\ outcome.data = "d1"

\* The class the error taxonomy names for a status code.
ClaimedClass(st) ==
    CASE st \in {401, 403} -> "AuthenticationError"
      [] st = 404 -> "NotFoundError"
      [] st = 422 -> "ValidationError"
      [] st = 429 -> "RateLimitError"
      [] st >= 500 -> "ServerError"
      [] OTHER -> "NeoTariffHTTPError"

\* Every attempt of the log was answered with the status code st.
AllAnswered(st) ==
    /\ Len(calls) > 0
    /\ \A i \in 1..Len(calls) : calls[i].status_code = st

\* C2: when every attempt is answered with the same retryable status s, the
\* loop raises nothing, max_retries + 1 requests are issued, and the call
\* raises the HTTP-status failure for s, carrying s.
C2_ExhaustedStatusRaisesHttpError ==
    \A s \in RETRY_STATUS_CODES :
        (pc = "done" /\ AllAnswered(s))
        => /\ loop = "returned"
           /\ Len(calls) = max_retries + 1
           /\ outcome.kind = ClaimedClass(s)
           /\ outcome.status_code = s

\* Every attempt of the log raised a TransportError.
AllFailed ==
    /\ Len(calls) > 0
    /\ \A i \in 1..Len(calls) : calls[i].exc # "None"

\* C3: when every attempt raises a network-level exception, max_retries + 1
\* requests are issued and the call raises a connection failure whose cause
\* is the exception of the last attempt and whose message counts
\* max_retries + 1 attempts.
C3_ExhaustedExceptionsRaiseConnectionError ==
    (pc = "done" /\ AllFailed)
    => /\ Len(calls) = max_retries + 1
       /\ loop = "raised"
       /\ outcome.kind = "NeoTariffConnectionError"
       /\ outcome.kind \notin HttpErrorKinds
       /\ outcome.cause = calls[Len(calls)].exc
       /\ outcome.attempts = max_retries + 1

\* Three attempts of a client with max_retries = 2 fail, the last with
\* another exception than the first.
C3_Witness ==
    /\ pc = "done"
    /\ max_retries = 2
    /\ Len(calls) = 3
    /\ calls[1].exc = "ConnectError"
    /\ calls[3].exc = "ReadTimeout"
    /\ AllFailed
    /\ outcome.cause = "ReadTimeout"

\* C4: an attempt answered with a status outside the retry set is the last
\* request of the call: the loop returns it with no backoff after it, so a
\* call whose first answer is such a status issues one request, sleeps
\* never, and ends at once, whatever the body.
C4_NonRetryableReturnsAtOnce ==
    \A i \in 1..Len(calls) :
        (calls[i].exc = "None"
         /\ calls[i].status_code \notin RETRY_STATUS_CODES)
        => /\ Len(calls) = i
           /\ Len(sleeps) = i - 1
           /\ pc = "done"
           /\ loop = "returned"
           /\ outcome.kind # "none"
           /\ response.status_code = calls[i].status_code

\* A client with max_retries = 2 is answered 401 first: one request, no
\* sleep, an authentication failure.
C4_Witness ==
    /\ pc = "done"
    /\ max_retries = 2
    /\ Len(calls) = 1
    /\ calls[1].status_code = 401
    /\ sleeps = <<>>
    /\ outcome.kind = "AuthenticationError"

\* The steps a call has left at most: two per iteration that may follow,
\* one for the attempt that is due.
StepsLeft ==
    CASE pc = "idle" -> 2 * max_retries + 3
      [] pc = "attempting" -> 2 * (max_retries - attempt) + 2
      [] pc = "backoff" -> 2 * (max_retries - attempt) + 1
      [] OTHER -> 0

\* C5: a call issues at most max_retries + 1 requests; while it has not
\* ended a step is due and every step lessens the steps left, so it ends;
\* it ends with at least one request issued, in a returned response or a
\* connection failure; with max_retries = 0 it ends after one request.
C5_BoundedAttemptsAndTermination ==
    /\ [](/\ Len(calls) <= max_retries + 1
          /\ attempt <= max_retries
          /\ (pc # "done" => ENABLED Next)
          /\ (pc = "done"
              => /\ Len(calls) >= 1
                 /\ (loop = "returned"
                     \/ outcome.kind = "NeoTariffConnectionError")
                 /\ (max_retries = 0 => Len(calls) = 1)))
    /\ [][StepsLeft' < StepsLeft]_vars

\* A client with max_retries = 2 ends after three requests, the last
\* answered with a retryable status.
C5_Witness ==
    /\ pc = "done"
    /\ max_retries = 2
    /\ Len(calls) = 3
    /\ calls[3].status_code = 504
    /\ loop = "returned"

\* ---------------------------------------------------- the handling claims

\* C6: for a status from 400 on the class of the failure raised is decided
\* by the status alone, as the taxonomy names it, and the failure carries
\* the status.
C6_StatusDecidesFailureKind ==
    (pc = "done" /\ loop = "returned" /\ response.status_code >= 400)
    => /\ outcome.kind = ClaimedClass(response.status_code)
       /\ outcome.status_code = response.status_code

\* C7: for a response with a status outside 200-299 the call raises an
\* HTTP-status failure: it returns no envelope and raises no other failure.
C7_Non2xxRaisesHttpError ==
    (pc = "done" /\ loop = "returned" /\ ~Is2xx(response.status_code))
    => outcome.kind \in HttpErrorKinds

\* The API-business failure of a success=false envelope: the status of the
\* response, the errors and the meta of the envelope, and the message of
\* the first error when there is one and it is not empty.
IsApiFailureOf(o, r) ==
    /\ o.kind = "NeoTariffAPIError"
    /\ o.status_code = r.status_code
    /\ o.errors = (IF r.body.errors.t = "list" THEN r.body.errors ELSE ErrNull)
    /\ o.meta = (IF r.body.meta = "valid" THEN "valid" ELSE "null")
    /\ (r.body.errors.t = "list" /\ Len(r.body.errors.items) > 0
        /\ r.body.errors.items[1].message # "")
       => o.message = r.body.errors.items[1].message

\* A 2xx response whose body is an envelope with success=false was handled.
HandledSuccessFalse ==
    /\ pc = "done"
    /\ loop = "returned"
    /\ Is2xx(response.status_code)
    /\ IsEnvelope(response.body, "Any")
    /\ response.body.success = "false"

\* C8 as claimed: request and request_typed, for any declared shape and
\* any value of data, raise the API-business failure of the envelope.
C8_SuccessFalseRaisesApiError_AnyData ==
    HandledSuccessFalse => IsApiFailureOf(outcome, response)

\* C8 as amended: request for any value of data, and request_typed when
\* data is null, missing or of the declared shape, raise the API-business
\* failure of the envelope; request_typed with data that is not of the
\* declared shape raises the validation error of the decoder instead.
C8_SuccessFalseRaisesApiError ==
    HandledSuccessFalse
    => IF IsEnvelope(response.body, response_type)
       THEN IsApiFailureOf(outcome, response)
       ELSE /\ kind = "request_typed"
            /\ outcome.kind = "PydanticValidationError"

\* request_typed for the shape S1 gets a 200 with success=false, data of
\* the shape S1 and two errors: the failure has the first error's message.
C8_Witness ==
    /\ HandledSuccessFalse
    /\ kind = "request_typed"
    /\ response_type = "S1"
    /\ response.body.data = "d1"
    /\ Len(response.body.errors.items) = 2
    /\ outcome.kind = "NeoTariffAPIError"
    /\ outcome.message = "E1"

\* The message the precedence of C9 gives for a JSON object: the first
\* error's message, else the detail, else the default.
ClaimedMessage(body) ==
    IF body.errors.t = "list" /\ Len(body.errors.items) > 0
       /\ body.errors.items[1].ok /\ body.errors.items[1].message # ""
    THEN body.errors.items[1].message
    ELSE CASE body.detail.t \in {"str", "dictmsg", "scalar"} -> body.detail.v
           [] OTHER -> "API error"

\* C9: the message of the HTTP-status failure of a JSON object is the first
\* error's message when there is one that is not empty, also with a detail
\* present; the detail only when there is no such message; else "API error".
C9_ErrorsMessageBeforeDetail ==
    (pc = "done" /\ loop = "returned" /\ response.status_code >= 400
     /\ response.body.t = "object" /\ outcome.kind \in HttpErrorKinds)
    => outcome.message = ClaimedMessage(response.body)

\* C10: for a status from 400 on and any body, handling raises the
\* HTTP-status failure for the status, with a message that is a string; no
\* other error escapes.
C10_ExtractionNeverThrows ==
    (pc = "done" /\ loop = "returned" /\ response.status_code >= 400)
    => /\ outcome.kind \in HttpErrorKinds
       /\ outcome.kind = ClaimedClass(response.status_code)
       /\ outcome.message # NonStr

\* C11: every HTTP-status failure carries as raw_body the complete text of
\* the response, for a JSON body and for a text that is not JSON; for a
\* text that is not JSON and a status from 400 on the failure is the one
\* the taxonomy names for the status, with errors and meta null.
C11_RawBodyIsWholeText ==
    (pc = "done" /\ loop = "returned")
    => /\ outcome.kind \in HttpErrorKinds
          => outcome.raw_body = response.body
       /\ (response.status_code >= 400 /\ response.body.t = "nonjson")
          => /\ outcome.kind = ClaimedClass(response.status_code)
             /\ outcome.status_code = response.status_code
             /\ outcome.raw_body = response.body
             /\ outcome.errors = ErrNull
             /\ outcome.meta = "null"

\* A 502 whose body is a text of 450 characters that is not JSON: a server
\* failure carrying all 450 characters.
C11_Witness ==
    /\ pc = "done"
    /\ response.status_code = 502
    /\ response.body = NonJson(450)
    /\ outcome.kind = "ServerError"
    /\ outcome.raw_body.len = 450

ClaimedBase(n) ==
    CASE n = 0 -> 1
      [] n = 1 -> 2
      [] n = 2 -> 4
      [] n = 3 -> 8
      [] OTHER -> 16

\* The response carries a Retry-After header that is a number.
HasNumericHint(r) == r # NoResponse /\ r.retry_after.t = "num"

\* The backoff of the iteration with index n has just been slept.
JustSlept(n) == pc = "attempting" /\ attempt = n + 1 /\ Len(sleeps) = n + 1

\* C13: the backoff of attempt n is min(2^n * 0.5, 8.0) s when there is no
\* response or no numeric Retry-After (0.5 s for n = 0, never above 8.0 s,
\* not decreasing in n), and the larger of that value and the hint when
\* there is a numeric one: at least the hint, at least the computed value,
\* above the cap when the hint is.
C13_BackoffIsCappedExponentialOrHint ==
    \A n \in 0..(MaxBackoffAttempt + 1) :
        JustSlept(n)
        => /\ IF HasNumericHint(response)
              THEN /\ sleeps[n + 1] >= response.retry_after.v
                   /\ sleeps[n + 1] >= ClaimedBase(n)
                   /\ sleeps[n + 1] \in {response.retry_after.v, ClaimedBase(n)}
              ELSE /\ sleeps[n + 1] = ClaimedBase(n)
                   /\ sleeps[n + 1] <= 16
                   /\ (n = 0 => sleeps[1] = 1)
           /\ \A i \in 1..n :
                /\ sleeps[i] = ClaimedBase(i - 1)
                /\ (i > 1 => sleeps[i - 1] <= sleeps[i])

\* After the attempt with index 1 a 429 carries Retry-After: 0.5: the
\* computed 1.0 s is slept, not the shorter hint.
C13_Witness ==
    /\ JustSlept(1)
    /\ response.status_code = 429
    /\ response.retry_after = NumHint(1)
    /\ sleeps[2] = 2

\* ------------------------------------------------- the raw adapter claims

\* C15: for every response the loop yields, request and request_typed of
\* the raw adapter return a RawResponse holding that response and raise
\* nothing; parsed is null exactly when the text is not JSON (or is null)
\* or the body does not validate as an envelope, whatever shape was
\* declared, and else is the envelope of the body, for success=false and
\* for a status from 400 on too.
C15_RawAdapterNeverRaises ==
    (pc = "done" /\ loop = "returned" /\ kind \in RawKinds)
    => /\ outcome.kind = "RawResponse"
       /\ outcome.http_response = response
       /\ outcome.parsed = "null"
          <=> (BodyIsNone(response.body)
               \/ ~ValidateEnvelope(response.body, "Any").ok)
       /\ response.body.t # "object" => outcome.parsed = "null"
       /\ IsEnvelope(response.body, "Any")
          => /\ outcome.parsed = "envelope"
             /\ outcome.success = (response.body.success = "true")
             /\ outcome.data = (IF response.body.data = "absent"
                                THEN "null" ELSE response.body.data)
             /\ outcome.errors = (IF response.body.errors.t = "list"
                                  THEN response.body.errors ELSE ErrNull)
             /\ outcome.meta = (IF response.body.meta = "valid"
                                THEN "valid" ELSE "null")

\* request_typed of the raw adapter, declared shape S1, gets a 404 whose
\* body is a success=false envelope with data of the shape S2 and an error:
\* a RawResponse with the envelope parsed.
C15_Witness ==
    /\ pc = "done"
    /\ kind = "raw_request_typed"
    /\ response_type = "S1"
    /\ response.status_code = 404
    /\ response.body.success = "false"
    /\ response.body.data = "d2"
    /\ outcome.kind = "RawResponse"
    /\ outcome.parsed = "envelope"
    /\ ~outcome.success
    /\ outcome.data = "d2"
    /\ outcome.errors = ErrList(<<ErrItem(TRUE, "E1")>>)

\* The backoff the policy gives after the attempt with index n.
ClaimedBackoff(n, r) ==
    IF HasNumericHint(r) /\ r.retry_after.v > ClaimedBase(n)
    THEN r.retry_after.v ELSE ClaimedBase(n)

\* C16: under the raw adapter a call issues the requests and sleeps the
\* backoffs the retry policy gives, as request of the wrapped transport
\* does: a request follows a retryable outcome only, at most
\* max_retries + 1 are issued, a backoff of the policy's duration follows
\* every attempt but the last; only the delivery of the final response
\* differs (a RawResponse, where request raises or returns an envelope),
\* and when the last attempt raised a network exception the raw adapter
\* raises the connection failure too.
C16_RawAdapterKeepsRetryPolicy ==
    /\ [](/\ Len(calls) <= max_retries + 1
          /\ \A i \in 1..(Len(calls) - 1) : IsRetryable(calls[i])
          /\ pc = "attempting" => Len(sleeps) = Len(calls)
          /\ pc = "backoff" => Len(sleeps) = Len(calls) - 1
          /\ pc = "done"
             => /\ Len(sleeps) = Len(calls) - 1
                /\ (~IsRetryable(calls[Len(calls)])
                    \/ Len(calls) = max_retries + 1)
                /\ IF calls[Len(calls)].exc # "None"
                   THEN /\ outcome.kind = "NeoTariffConnectionError"
                        /\ outcome.cause = calls[Len(calls)].exc
                   ELSE /\ response.status_code = calls[Len(calls)].status_code
                        /\ IF kind \in RawKinds
                           THEN /\ outcome.kind = "RawResponse"
                                /\ outcome.http_response = response
                           ELSE outcome.kind # "RawResponse")
    /\ [][sleeps' # sleeps
          => sleeps' = Append(sleeps, ClaimedBackoff(Len(sleeps), response))]_vars

\* The raw adapter on a client with max_retries = 2: a 503 with
\* Retry-After of 10 s, a connection error, then a 500: three requests, the
\* backoffs 10 s and 1 s, and a RawResponse holding the 500.
C16_Witness ==
    /\ pc = "done"
    /\ kind = "raw_request"
    /\ max_retries = 2
    /\ Len(calls) = 3
    /\ calls[1].status_code = 503
    /\ calls[2].exc = "ConnectError"
    /\ calls[3].status_code = 500
    /\ sleeps = <<20, 2>>
    /\ outcome.kind = "RawResponse"
    /\ outcome.http_response.status_code = 500

\* ------------------------------------------------------- the close claims

\* What a close() must leave alone besides the pools.
besidesPools ==
    <<callVars, atask, adapter_cache, builds, stored, lock, threads, procs,
      unwrapped, client>>

\* C17: a close() of the raw adapter, blocking or cooperative, changes
\* nothing: the pool of the wrapped transport is as before, no failure is
\* raised; while the owning transport has not been closed its pool is open
\* and no call, through the transport or the adapter, fails on a closed
\* client, however often the adapter was closed.
C17_AdapterCloseChangesNothing ==
    /\ [](/\ \A v \in Variants :
                closes[v].transport = 0 => PoolOf(v) = "open"
          /\ outcome = ClosedClientError => closes["sync"].transport > 0
          /\ atask.outcome = ClosedClientError
             => closes["async"].transport > 0)
    /\ [][\A v \in Variants :
            closes'[v].adapter # closes[v].adapter
            => /\ pool' = pool
               /\ a_pool' = a_pool
               /\ closes'[v].raised = closes[v].raised
               /\ UNCHANGED besidesPools]_vars

\* After two closes of each raw adapter and none of a transport, a call
\* through the blocking adapter returned a RawResponse and one on the
\* cooperative transport its envelope.
C17_Witness ==
    /\ closes["sync"].adapter = 2
    /\ closes["async"].adapter = 2
    /\ closes["sync"].transport = 0
    /\ closes["async"].transport = 0
    /\ pool = "open"
    /\ a_pool = "open"
    /\ kind = "raw_request"
    /\ outcome.kind = "RawResponse"
    /\ atask.kind = "request"
    /\ atask.outcome.kind = "envelope"

HasReturned(t) == threads[t].pc = "idle" /\ threads[t].gets > 0

\* C14: whatever the interleaving of the threads in _get_adapter, and in
\* the calls that follow, the adapter of a shape is built at most once;
\* every caller is returned the adapter that is stored for its shape, the
\* same for all of them; an entry of the cache is never removed or
\* replaced.
C14_AdapterBuiltOncePerShape ==
    /\ [](/\ \A T \in Shapes :
                /\ builds[T] <= 1
                /\ (T \in adapter_cache) <=> (stored[T] # 0)
          /\ \A t \in 1..NumThreads :
                HasReturned(t)
                => /\ threads[t].result # 0
                   /\ threads[t].result = stored[threads[t].key]
          /\ \A t, u \in 1..NumThreads :
                (HasReturned(t) /\ HasReturned(u)
                 /\ threads[t].key = threads[u].key)
                => threads[t].result = threads[u].result)
    /\ [][\A T \in Shapes :
            stored[T] # 0
            => /\ stored'[T] = stored[T]
               /\ T \in adapter_cache'
               /\ builds'[T] = builds[T]]_vars

\* Thread 1 built the adapter of S1 and asks for S1 a second time; thread 2
\* saw S1 missing outside the lock, waited for it, found the adapter under
\* it and is returned the one thread 1 built.
C14_Witness ==
    /\ builds["S1"] = 1
    /\ threads[1].key = "S1"
    /\ threads[1].gets = 2
    /\ threads[1].pc = "return"
    /\ threads[1].local = 0
    /\ threads[2].key = "S1"
    /\ threads[2].gets = 1
    /\ threads[2].pc = "idle"
    /\ threads[2].local = 0
    /\ threads[2].result = 1
    /\ lock = 0

\* --------------------------------------------------- the two transports

\* C19: given the same configuration, the same call and the same outcome
\* of every attempt, the blocking and the cooperative transport issue the
\* same requests, sleep the same backoffs and end in the same outcome (the
\* same envelope, RawResponse or failure with the same fields).
C19_SyncAndAsyncSamePolicy ==
    /\ \A i \in 1..Len(atask.sleeps) :
          i <= Len(sleeps) => atask.sleeps[i] = sleeps[i]
    /\ \A i \in 1..Len(atask.calls) :
          i <= Len(calls) /\ atask.calls[i] = calls[i]
    /\ (atask.pc = "attempting" /\ pc = "attempting"
        /\ Len(atask.calls) = Len(calls))
       => (atask.attempt = attempt /\ atask.sleeps = sleeps)
    /\ (pc = "done" /\ Len(atask.calls) = Len(calls)) => atask.pc = "done"
    /\ atask.pc = "done"
       => /\ pc = "done"
          /\ atask.calls = calls
          /\ atask.sleeps = sleeps
          /\ atask.loop = loop
          /\ atask.outcome = outcome

\* Both calls, on clients with max_retries = 2, got a 429 with Retry-After
\* of 10 s, a timeout and a 404: both slept 10 s and 1 s and raised the
\* not-found failure after three requests.
C19_Witness ==
    /\ max_retries = 2
    /\ pc = "done"
    /\ atask.pc = "done"
    /\ Len(atask.calls) = 3
    /\ atask.calls[1].status_code = 429
    /\ atask.calls[2].exc = "ReadTimeout"
    /\ atask.calls[3].status_code = 404
    /\ atask.sleeps = <<20, 2>>
    /\ atask.outcome.kind = "NotFoundError"
    /\ outcome.kind = "NotFoundError"

\* ------------------------------------------------ calls in flight together

\* The call with the locals c run alone on the outcomes ins: the sleep that
\* is due is taken before the next attempt; "diverged" when the call has
\* ended and outcomes are left.
RECURSIVE Replay(_, _, _)
Replay(c, ins, mr) ==
    IF ins = <<>> THEN c
    ELSE IF c.pc = "backoff" THEN Replay(TaskSleep(c, mr), ins, mr)
    ELSE IF c.pc # "attempting" THEN [c EXCEPT !.pc = "diverged"]
    ELSE IF Head(ins).exc # "None"
    THEN Replay(TaskAttemptException(c, Head(ins).exc, mr), Tail(ins), mr)
    ELSE Replay(TaskAttemptResponse(c, Head(ins).r, mr), Tail(ins), mr)

\* The call p as it would stand had it run alone on a transport of the
\* same configuration and been given its own outcomes.
Alone(p) ==
    Replay(TaskStart(NoTask(procs[p].variant), procs[p].kind,
                     procs[p].response_type),
           procs[p].inputs, max_retries)

\* The locals and the log of the call p, without the outcomes it was given.
Own(p) == [procs[p] EXCEPT !.inputs = <<>>]

\* C20: for calls interleaved on one transport, blocking or cooperative,
\* the requests, the backoffs and the outcome of each call are those of the
\* same call run alone on its own attempt outcomes: each issues at most
\* max_retries + 1 requests, one per outcome it was given, and a
\* connection failure carries the exception of its own last attempt.
C20_RetryStateIsPerCall ==
    \A p \in 1..NumCalls :
        procs[p].pc # "idle"
        => /\ LET alone == Alone(p)
              IN \/ Own(p) = alone
                 \/ (alone.pc = "backoff"
                     /\ Own(p) = TaskSleep(alone, max_retries))
           /\ Len(procs[p].calls) = Len(procs[p].inputs)
           /\ Len(procs[p].calls) <= max_retries + 1
           /\ \A i \in 1..Len(procs[p].calls) :
                 /\ procs[p].calls[i].exc = procs[p].inputs[i].exc
                 /\ procs[p].calls[i].status_code
                       = procs[p].inputs[i].r.status_code
           /\ procs[p].pc = "done"
              => IF procs[p].inputs[Len(procs[p].inputs)].exc # "None"
                 THEN /\ procs[p].outcome.kind = "NeoTariffConnectionError"
                      /\ procs[p].outcome.cause = "ConnectError"
                      /\ procs[p].last_exc = "ConnectError"
                 ELSE /\ procs[p].loop = "returned"
                      /\ procs[p].response
                            = procs[p].inputs[Len(procs[p].inputs)].r

\* On a cooperative transport with max_retries = 1 two calls ran together:
\* the first failed twice and raised the connection failure after a
\* backoff of 0.5 s, the second got a 503 with Retry-After of 10 s and then
\* a 200 and returned its envelope after one backoff of 10 s.
C20_Witness ==
    /\ max_retries = 1
    /\ procs[1].variant = "async"
    /\ procs[1].pc = "done"
    /\ procs[2].pc = "done"
    /\ Len(procs[1].calls) = 2
    /\ procs[1].sleeps = <<1>>
    /\ procs[1].outcome.kind = "NeoTariffConnectionError"
    /\ Len(procs[2].calls) = 2
    /\ procs[2].sleeps = <<20>>
    /\ procs[2].outcome.kind = "envelope"

\* ------------------------------------------------------ the failure kinds

\* The call has ended in a failure: no envelope and no RawResponse came back.
EndedInFailure == pc = "done" /\ outcome.kind \notin {"envelope", "RawResponse"}

\* C21: every failure a request or request_typed call ends in (connection,
\* HTTP-status, API-business, not-JSON, envelope or payload decoding) is of
\* a class deriving from the root failure NeoTariffError.
C21_EveryFailureIsRootKind ==
    (EndedInFailure /\ kind \in {"request", "request_typed"})
    => outcome.kind \in RootKinds

\* request has handed a response with a status below 400 and a JSON object
\* as body to APIResponse.model_validate.
ParsedUntyped ==
    /\ pc = "done"
    /\ loop = "returned"
    /\ kind = "request"
    /\ response.status_code < 400
    /\ response.body.t = "object"

\* C22: parsing a JSON object as an untyped envelope fails only when
\* success is missing or no boolean: with a boolean success it passes,
\* whatever the other keys and whatever the values of data, errors and meta.
C22_ParseFailsOnlyOnSuccess ==
    (ParsedUntyped /\ response.body.success \in {"true", "false"})
    => outcome.kind \in {"envelope", "NeoTariffAPIError"}

\* ------------------------------------------------------ the unwrap claim

\* C23: require_data returns the data of the envelope as it is whenever the
\* data is not null (for the envelope decoded from {success: true, data: d}
\* it gives d), raises the root failure "Response contained no data"
\* exactly when the data is null, and leaves the envelope as it was.
C23_RequireDataReturnsDataOrRaises ==
    /\ [](unwrapped.called
          => /\ IF outcome.data = "null"
                THEN /\ unwrapped.raised.kind = "NeoTariffError"
                     /\ unwrapped.raised.kind \in RootKinds
                     /\ unwrapped.raised.message = "Response contained no data"
                ELSE /\ unwrapped.raised = NoOutcome
                     /\ unwrapped.data = outcome.data
             /\ (response.body.data \in {"d1", "d2"}
                 => /\ unwrapped.data = response.body.data
                    /\ unwrapped.raised = NoOutcome)
             /\ (response.body.data \in {"absent", "null"}
                 => unwrapped.raised.kind = "NeoTariffError"))
    /\ [][unwrapped' # unwrapped => outcome' = outcome]_vars

\* The envelope of a 404 with success=false and data of the shape S2, parsed
\* into a RawResponse, is unwrapped: the data comes back, nothing is raised.
C23_Witness ==
    /\ unwrapped.called
    /\ kind = "raw_request"
    /\ response.status_code = 404
    /\ outcome.parsed = "envelope"
    /\ ~outcome.success
    /\ outcome.data = "d2"
    /\ unwrapped.data = "d2"
    /\ unwrapped.raised = NoOutcome

\* ---------------------------------------------------- the config claims

\* The settings of a client.
Settings == {"api_key", "base_url", "timeout", "max_retries"}

\* A source supplies a value that is not empty.
Supplies(x) == x.t \notin {"absent", "empty"}

\* The default of a setting; the API key has none.
ClaimedDefault(s) ==
    CASE s = "base_url" -> Value("text", 0)
      [] s = "timeout" -> Value("num", 30)
      [] s = "max_retries" -> Value("num", 2)
      [] OTHER -> Absent

\* The value the precedence order gives a setting: the constructor
\* argument, else the env file, else the process environment, else the
\* default, the first of them that supplies a value.
ClaimedPick(s) ==
    IF Supplies(client.args[s]) THEN client.args[s]
    ELSE IF client.env_file = "present" /\ Supplies(client.file[s])
    THEN client.file[s]
    ELSE IF Supplies(client.env[s]) THEN client.env[s]
    ELSE ClaimedDefault(s)

\* The constructor resolved its settings.
HasResolved == client.config # Setting(Absent, Absent, Absent, Absent)

\* C24: each of api_key, base_url, timeout and max_retries is resolved, on
\* its own, to the value of the first source that supplies one, in the
\* order constructor argument, env file, process environment, default
\* (30 s, 2 retries, the default URL); max_retries = 0 as argument is kept.
C24_ConfigPrecedence ==
    /\ HasResolved
       => \A s \in Settings : client.config[s] = ClaimedPick(s)
    /\ (client.pc # "none" /\ client.env_file # "missing"
        /\ Supplies(ClaimedPick("api_key"))
        /\ ClaimedPick("timeout").t = "num" /\ ClaimedPick("timeout").v > 0
        /\ ClaimedPick("max_retries").t = "num"
        /\ ClaimedPick("max_retries").v >= 0)
       => HasResolved

\* C25: a constructor call, blocking or cooperative, either raises a
\* failure of the root kind before it calls the transport, or gives the
\* transport an API key that is not empty, a timeout > 0 and
\* max_retries >= 0; no other value reaches the transport call.
C25_ConstructionValidates ==
    /\ client.pc = "raised"
       => (client.raised \in RootKinds /\ client.passed = {})
    /\ (client.pc = "built" \/ client.passed # {})
       => /\ Supplies(client.config.api_key)
          /\ client.config.timeout.t = "num"
          /\ client.config.timeout.v > 0
          /\ client.config.max_retries.t = "num"
          /\ client.config.max_retries.v >= 0

\* ------------------------------------------------ the order of the events

\* C26: within a call attempts and backoffs alternate.  A request is issued
\* only when every earlier attempt has ended in a retryable outcome and has
\* been followed by its backoff; a backoff follows an attempt only when
\* that attempt was retryable and not the last one allowed, and lasts what
\* the policy gives for the index of that attempt; a step issues one
\* request or sleeps once, never both; a call that has ended after k
\* attempts has slept k - 1 times.
C26_AttemptsAndBackoffsAlternate ==
    /\ [](/\ \A i \in 1..(Len(calls) - 1) : IsRetryable(calls[i])
          /\ pc = "attempting"
             => (Len(sleeps) = Len(calls) /\ attempt = Len(calls))
          /\ pc = "backoff"
             => /\ Len(sleeps) = Len(calls) - 1
                /\ attempt = Len(calls) - 1
                /\ attempt < max_retries
                /\ IsRetryable(calls[Len(calls)])
          /\ pc = "done"
             => /\ Len(calls) >= 1
                /\ Len(sleeps) = Len(calls) - 1
                /\ (IsRetryable(calls[Len(calls)])
                    => Len(calls) = max_retries + 1))
    /\ [][/\ calls' # calls
             => /\ pc = "attempting"
                /\ Len(calls') = Len(calls) + 1
                /\ SubSeq(calls', 1, Len(calls)) = calls
                /\ sleeps' = sleeps
                /\ Len(sleeps) = Len(calls)
          /\ sleeps' # sleeps
             => /\ pc = "backoff"
                /\ calls' = calls
                /\ Len(calls) <= max_retries
                /\ sleeps' = Append(sleeps,
                                    ClaimedBackoff(Len(calls) - 1, response))]_vars

\* A client with max_retries = 2 got a 429 with Retry-After of 10 s, a
\* timeout and a 200: three attempts and the two backoffs between them,
\* 10 s and 1 s, none after the 200.
C26_Witness ==
    /\ pc = "done"
    /\ max_retries = 2
    /\ Len(calls) = 3
    /\ calls[1].status_code = 429
    /\ calls[2].exc = "ReadTimeout"
    /\ calls[3].status_code = 200
    /\ sleeps = <<20, 2>>

\* Every attempt the client allows has been made and has ended in a
\* retryable outcome.
Exhausted ==
    /\ pc = "done"
    /\ Len(calls) = max_retries + 1
    /\ \A i \in 1..Len(calls) : IsRetryable(calls[i])

\* C27: when all max_retries + 1 attempts end in retryable outcomes, of
\* whatever kinds, the last attempt alone decides: a network exception gives
\* the connection failure with that exception as cause, also after
\* retryable responses; a retryable response is handed to response
\* handling and gives the HTTP-status failure of its status, also after
\* network exceptions.
C27_LastAttemptDecides ==
    Exhausted
    => IF calls[Len(calls)].exc # "None"
       THEN /\ loop = "raised"
            /\ outcome.kind = "NeoTariffConnectionError"
            /\ outcome.cause = calls[Len(calls)].exc
       ELSE /\ loop = "returned"
            /\ response.status_code = calls[Len(calls)].status_code
            /\ outcome.kind \in HttpErrorKinds
            /\ outcome.status_code = calls[Len(calls)].status_code

\* --------------------------------------------------- the locals of the loop

\* An iteration of the loop has ended without returning: the backoff is
\* due, or the next attempt is, or the loop was left after the last one.
IterationEnded ==
    \/ pc = "backoff"
    \/ (pc = "attempting" /\ Len(calls) > 0)
    \/ (pc = "done" /\ IsRetryable(calls[Len(calls)]))

\* C28: at the end of every iteration that does not return, exactly one of
\* last_exc and response is set, and it is the outcome of the attempt of
\* that iteration; so when the loop is left with no exception recorded the
\* response is set, and the assertion before the final return holds.
C28_ExactlyOneOfExceptionAndResponse ==
    /\ outcome.kind # "AssertionError"
    /\ IterationEnded
       => /\ (last_exc # "None") # (response # NoResponse)
          /\ IF calls[Len(calls)].exc # "None"
             THEN /\ last_exc = calls[Len(calls)].exc
                  /\ response = NoResponse
             ELSE /\ last_exc = "None"
                  /\ response # NoResponse
                  /\ response.status_code = calls[Len(calls)].status_code
          /\ (pc = "done" /\ last_exc = "None")
             => (response # NoResponse /\ loop = "returned")
          /\ (pc = "done" /\ last_exc # "None") => loop = "raised"

\* A client with max_retries = 1: a connection error, then a 503; the loop
\* is left with the 503 recorded and no exception.
C28_Witness ==
    /\ pc = "done"
    /\ max_retries = 1
    /\ Len(calls) = 2
    /\ calls[1].exc = "ConnectError"
    /\ calls[2].status_code = 503
    /\ last_exc = "None"
    /\ response.status_code = 503
    /\ loop = "returned"

\* ------------------------------------------------- the frame of the cache

\* The call has ended in a way that does not reach the decoder: it is not
\* request_typed of the transport, or it raised the connection failure, or
\* its final response has a status from 400 on or a body that is None.
EndedShortOfDecoder ==
    /\ pc = "done"
    /\ \/ kind # "request_typed"
       \/ loop = "raised"
       \/ response.status_code >= 400
       \/ response.body.t \in {"nonjson", "null"}

\* C29: the decoder cache changes only in the step that ends a
\* request_typed call of the transport with a response of a status below
\* 400 and a JSON body, and then by the entry of the declared shape alone;
\* request, the raw adapter's request and request_typed, and typed calls
\* ending in a connection, HTTP-status or not-JSON failure leave the cache
\* as it was and build nothing.
C29_CacheChangesOnlyInTypedDecoding ==
    /\ [](EndedShortOfDecoder
          => /\ adapter_cache = {}
             /\ \A T \in Shapes : builds[T] = 0 /\ stored[T] = 0)
    /\ [][(adapter_cache' # adapter_cache \/ builds' # builds
           \/ stored' # stored)
          => /\ kind = "request_typed"
             /\ pc' = "done"
             /\ loop' = "returned"
             /\ response'.status_code < 400
             /\ response'.body.t \notin {"nonjson", "null"}
             /\ outcome'.kind \notin HttpErrorKinds
             /\ adapter_cache' = adapter_cache \cup {response_type}
             /\ \A T \in Shapes \ {response_type} :
                   builds'[T] = builds[T] /\ stored'[T] = stored[T]]_vars

\* request_typed for the shape S2 on a client with max_retries = 1: a
\* connection error, then a 200 whose data is of the shape S1; the decoder
\* of S2 is built and stored, and rejects the body.
C29_Witness ==
    /\ pc = "done"
    /\ kind = "request_typed"
    /\ response_type = "S2"
    /\ Len(calls) = 2
    /\ calls[1].exc = "ConnectError"
    /\ response.status_code = 200
    /\ outcome.kind = "PydanticValidationError"
    /\ adapter_cache = {"S2"}
    /\ builds["S2"] = 1
    /\ builds["S1"] = 0

\* ------------------------------------------------------- a build that fails

\* The step in which the build of thread t raises.
BuildRaises(t) ==
    /\ threads[t].pc = "build"
    /\ threads'[t].pc = "idle"
    /\ threads'[t].result = -1

\* C30: when the build of the decoder for a key fails, the cache has no
\* entry for the key and the lock is free; the entries, the builds and
\* the threads of other keys are untouched; a thread that then finds the
\* key missing under the lock builds again; the lock is held only by a
\* thread inside the with block; and in every interleaving the calls, of
\* which there are finitely many, all end, so that no thread stays at the
\* lock.
C30_FailedBuildFreesLock ==
    /\ [][\A t \in 1..NumThreads :
            BuildRaises(t)
            => /\ lock = t
               /\ lock' = 0
               /\ threads[t].key \notin adapter_cache'
               /\ adapter_cache' = adapter_cache
               /\ builds' = builds
               /\ stored' = stored
               /\ \A u \in 1..NumThreads \ {t} : threads'[u] = threads[u]]_vars
    /\ [][\A t \in 1..NumThreads :
            (threads[t].pc = "recheck" /\ threads'[t] # threads[t])
            => (threads'[t].pc = "build"
                <=> threads[t].key \notin adapter_cache)]_vars
    /\ [](lock # 0
          => threads[lock].pc \in {"recheck", "build", "store", "release"})
    /\ [](\A t \in 1..NumThreads :
            threads[t].pc \in {"recheck", "build", "store", "release"}
            => lock = t)
    /\ <>[](\A t \in 1..NumThreads : threads[t].pc = "idle")

\* The build of thread 1 for S1 has raised and left no entry; thread 2
\* has then taken the lock, built, stored and returned the decoder of S1.
C30_Witness ==
    /\ threads[1].gets = 1
    /\ threads[1].key = "S1"
    /\ threads[1].pc = "idle"
    /\ threads[1].result = -1
    /\ threads[2].key = "S1"
    /\ threads[2].gets = 1
    /\ threads[2].pc = "idle"
    /\ threads[2].result = 1
    /\ adapter_cache = {"S1"}
    /\ builds["S1"] = 1
    /\ lock = 0

====
